---- MODULE Spec2Model ----
(***************************************************************************)
(* Stack lifecycle of provider/aws/helpers.go: createStack, updateStack    *)
(* and the cached describe wrappers, run by one lifecycle task and by      *)
(* concurrent readers against one live stack of the provider.              *)
(***************************************************************************)
EXTENDS Integers, Sequences, FiniteSets, TLC

(* ------------------------------ bounds --------------------------------- *)

\* calls of createStack and updateStack the lifecycle task makes
MaxCalls == 2

(* --------------------------- value universe ---------------------------- *)

\* Go's nil for a pointer to string and for an error
Nil == "nil"

\* the stack under study (the name argument of createStack / updateStack)
StackName == "app"

\* A cache key is the sequence of strings its canonical serialization is
\* made of: <<name>> for a stack name, <<>> for nil.
NilKey == <<>>

KeyOf(name) == <<name>>

Readers == {"r1"}
Manager == "lm"
Procs == {Manager} \cup Readers

\* every string that is sorted by sort.Strings, in ascending order
Alphabet == <<"A", "B", "C", "D", "K0", "K1", "K2">>

\* provider settings of the Provider struct
Region == "us-east-1"
SettingsBucket == "settings"
CloudformationTopic == "topic"

(* ------------------------------ documents ------------------------------ *)

\* A document is the byte blob of a template: either JSON (wellFormed) with
\* its top-level members, or bytes json.Unmarshal rejects.
FormationParameterOf(d) == [Default |-> d, Description |-> "", NoEcho |-> FALSE, Type |-> "String"]

DocABC ==
  [id |-> "tABC", wellFormed |-> TRUE,
   members |-> [Parameters |-> [A |-> FormationParameterOf("da"),
                                B |-> FormationParameterOf("db"),
                                C |-> FormationParameterOf("dc")],
                Outputs |-> [Url |-> "x"]]]

DocBC ==
  [id |-> "tBC", wellFormed |-> TRUE,
   members |-> [Parameters |-> [B |-> FormationParameterOf("db"),
                                C |-> FormationParameterOf("dc")],
                Conditions |-> [Blank |-> "x"]]]

DocBad ==
  [id |-> "tBad", wellFormed |-> FALSE, members |-> [Garbage |-> "x"]]

Docs == {DocABC, DocBC, DocBad}

\* the template argument: nil or a document
Templates == {<<>>} \cup {<<d>> : d \in Docs}

\* a Go map[string]string given by its key/value pairs
MapFrom(pairs) ==
  [k \in {p[1] : p \in pairs} |-> (CHOOSE p \in pairs : p[1] = k)[2]]

\* the changes argument
ChangeMaps ==
  { MapFrom({}),
    MapFrom({<<"A", "9">>}),
    MapFrom({<<"B", "8">>, <<"C", "7">>, <<"D", "5">>}) }

\* the tags argument
TagMaps ==
  { MapFrom({}),
    MapFrom({<<"K1", "v2">>, <<"K0", "v3">>}) }

\* the id argument (idempotency token)
Tokens == {"", "tok"}

(* ------------------------------- sorting ------------------------------- *)

Rank(s) == CHOOSE i \in 1..Len(Alphabet) : Alphabet[i] = s

StrLess(a, b) == Rank(a) < Rank(b)

RECURSIVE SortStrings(_)
\* sort.Strings applied to the keys collected from a map: the keys of S in
\* ascending order, whatever order the map iteration produced them in
SortStrings(S) ==
  IF S = {} THEN <<>>
  ELSE LET m == CHOOSE x \in S : \A y \in S : ~StrLess(y, x)
       IN <<m>> \o SortStrings(S \ {m})

(* -------------------------------- cache -------------------------------- *)

\* pkg/cache: a process-wide map from (operation, key) to an entry
\* [item, ttl, written, expired]: written is the time of the Set (counted in
\* calls of the lifecycle task), an entry past its expiry stays in the map
\* and is a miss.
CacheOps ==
  {"describeStacks", "describeStackEvents", "describeStackResource",
   "describeStackResources", "listStackResources"}

\* Get(operation, key): <<item>> when a live entry exists, <<>> (nil) otherwise
cacheGet(c, op, key) ==
  IF <<op, key>> \in DOMAIN c /\ ~c[<<op, key>>].expired
  THEN <<c[<<op, key>>].item>>
  ELSE <<>>

\* Set(operation, key, value, ttl) at time now
cacheSet(c, op, key, value, ttl, now) ==
  [k \in DOMAIN c \cup {<<op, key>>} |->
     IF k = <<op, key>>
     THEN [item |-> value, ttl |-> ttl, written |-> now, expired |-> FALSE]
     ELSE c[k]]

\* Clear(operation, key-or-wildcard): a nil key clears the whole operation
cacheClear(c, op, key) ==
  LET gone == IF key = NilKey THEN {k \in DOMAIN c : k[1] = op}
              ELSE {<<op, key>>}
  IN [k \in DOMAIN c \ gone |-> c[k]]

(* ------------------------------- errors -------------------------------- *)

\* An error is a sequence of strings: <<>> is nil, <<"aws", code, message>> an
\* awserr.Error, <<"fmt", text, argument>> an fmt.Errorf error, and
\* <<"json", text>> the error of json.Unmarshal.
NoError == <<>>

AwsErr(code, msg) == <<"aws", code, msg>>

\* err.(awserr.Error) succeeds and its Code() is code
IsAwsCode(err, code) == Len(err) > 0 /\ err[1] = "aws" /\ err[2] = code

ErrThrottling == AwsErr("Throttling", "Rate exceeded")
ErrNoSuchStack == AwsErr("ValidationError", "Stack does not exist")
ErrNoUpdates == AwsErr("ValidationError", "No updates are to be performed.")
ErrInProgress == AwsErr("ValidationError", "Stack is in UPDATE_IN_PROGRESS state")
ErrAlreadyExists == AwsErr("AlreadyExistsException", "Stack already exists")
ErrTemplate == AwsErr("ValidationError", "Template format error")
ErrObjectStore == AwsErr("AccessDenied", "PutObject failed")

(* ------------------------- infrastructure provider ---------------------- *)

\* The live stack of the provider is
\* [exists, LastUpdatedTime, Parameters (name -> value), Tags (key -> value)].
NoStack ==
  [exists |-> FALSE, LastUpdatedTime |-> 0,
   Parameters |-> MapFrom({}), Tags |-> MapFrom({})]

LiveStack ==
  [exists |-> TRUE, LastUpdatedTime |-> 0,
   Parameters |-> MapFrom({<<"A", "1">>, <<"B", "2">>}),
   Tags |-> MapFrom({<<"K1", "v1">>, <<"K2", "v1">>})]

\* describe-stack: the cloudformation.Stack the provider returns for a live stack
StackDescription(st) ==
  LET pk == SortStrings(DOMAIN st.Parameters)
      tk == SortStrings(DOMAIN st.Tags)
  IN [StackName |-> StackName,
      LastUpdatedTime |-> st.LastUpdatedTime,
      Parameters |-> [i \in 1..Len(pk) |->
                        [ParameterKey |-> pk[i], ParameterValue |-> st.Parameters[pk[i]]]],
      Tags |-> [i \in 1..Len(tk) |-> [Key |-> tk[i], Value |-> st.Tags[tk[i]]]]]

\* DescribeStacksPages(StackName = name): the pages of stacks, or an error
ProviderDescribeStacks(st) ==
  IF st.exists
  THEN {[stacks |-> <<StackDescription(st)>>, err |-> NoError],
        [stacks |-> <<>>, err |-> ErrThrottling]}
  ELSE {[stacks |-> <<>>, err |-> ErrNoSuchStack],
        [stacks |-> <<>>, err |-> ErrThrottling],
        [stacks |-> <<>>, err |-> NoError]}

\* the entry of the last occurrence of a key in a request's lists
ParamEntry(ps, k) ==
  ps[CHOOSE i \in 1..Len(ps) :
       ps[i].ParameterKey = k /\ \A j \in (i+1)..Len(ps) : ps[j].ParameterKey # k]

TagEntry(ts, k) ==
  ts[CHOOSE i \in 1..Len(ts) :
       ts[i].Key = k /\ \A j \in (i+1)..Len(ts) : ts[j].Key # k]

ParamKeys(ps) == {ps[i].ParameterKey : i \in 1..Len(ps)}

TagKeysOf(ts) == {ts[i].Key : i \in 1..Len(ts)}

(* --------------------------- formation model --------------------------- *)

\* json.Unmarshal into Formation: members other than Parameters and Resources
\* are ignored, a missing member stays an empty map, malformed bytes fail
parseFormation(data) ==
  IF ~data.wellFormed
  THEN [f |-> <<>>, err |-> <<"json", "invalid character">>]
  ELSE [f |-> <<[Parameters |-> IF "Parameters" \in DOMAIN data.members
                                THEN data.members["Parameters"] ELSE MapFrom({}),
                 Resources |-> IF "Resources" \in DOMAIN data.members
                               THEN data.members["Resources"] ELSE MapFrom({})]>>,
        err |-> NoError]

\* formationParameters taking malformed data for a document without parameters
formationParametersLenient(data) ==
  LET r == parseFormation(data)
  IN IF r.err # NoError THEN [params |-> {}, err |-> NoError]
     ELSE [params |-> DOMAIN r.f[1].Parameters, err |-> NoError]

\* the keys of f.Parameters as a map[string]bool whose values are all true
formationParameters(data) ==
  LET r == parseFormation(data)
  IN IF r.err # NoError THEN [params |-> {}, err |-> r.err]
     ELSE [params |-> DOMAIN r.f[1].Parameters, err |-> NoError]

(* ----------------------------- object store ---------------------------- *)

\* whether the provider runs as the test provider (it does not)
IsTest == FALSE

\* the key the store generates when given the key ""
GeneratedKey == "tmp/k1"

\* A location is the Url of a stored object as url.Parse sees it:
\* [parses, Scheme, Path].
ObjectLocation(key) == [parses |-> TRUE, Scheme |-> "object", Path |-> <<"/", key>>]

\* ObjectStore(app, key, body, opts): the object is written under key (or a
\* generated one) and its location returned, or the write fails; a store may
\* hand back a location of another scheme or one that does not parse
ObjectStore(key, body) ==
  LET k == IF key = "" THEN GeneratedKey ELSE key
  IN {[wrote |-> <<[key |-> k, body |-> body]>>, Url |-> ObjectLocation(k), err |-> NoError],
      [wrote |-> <<[key |-> k, body |-> body]>>,
       Url |-> [parses |-> TRUE, Scheme |-> "s3", Path |-> <<"/", k>>], err |-> NoError],
      [wrote |-> <<[key |-> k, body |-> body]>>,
       Url |-> [parses |-> FALSE, Scheme |-> "", Path |-> <<>>], err |-> NoError],
      [wrote |-> <<>>, Url |-> [parses |-> FALSE, Scheme |-> "", Path |-> <<>>],
       err |-> ErrObjectStore]}

\* objectURL: the https URL of an object:// location in the settings bucket
objectURL(ou) ==
  IF ~ou.parses THEN [url |-> <<>>, err |-> <<"url", "parse error">>]
  ELSE IF ou.Scheme # "object"
  THEN [url |-> <<>>, err |-> <<"fmt", "only supports object:// urls">>]
  ELSE [url |-> <<"https://s3.", Region, ".amazonaws.com/", SettingsBucket>> \o ou.Path,
        err |-> NoError]

\* the object an https URL of the settings bucket names: <<body>> or <<>>
ObjectAt(objs, url) ==
  IF Len(url) = 6 /\ SubSeq(url, 1, 5) = <<"https://s3.", Region, ".amazonaws.com/", SettingsBucket, "/">>
     /\ url[6] \in DOMAIN objs
  THEN <<objs[url[6]]>>
  ELSE <<>>

(* ---------------------------- describeStack ---------------------------- *)

\* describeStack without the mapping of ValidationError to not-found
describeStackPlain(name, stacks, err) ==
  IF err # NoError THEN [stack |-> <<>>, err |-> err]
  ELSE IF Len(stacks) # 1
  THEN [stack |-> <<>>, err |-> <<"fmt", "could not load stack: ", name>>]
  ELSE [stack |-> <<stacks[1]>>, err |-> NoError]

\* describeStack(name) applied to what describeStacks returned
describeStack(name, stacks, err) ==
  IF IsAwsCode(err, "ValidationError")
  THEN [stack |-> <<>>, err |-> <<"fmt", "stack not found: ", name>>]
  ELSE IF err # NoError THEN [stack |-> <<>>, err |-> err]
  ELSE IF Len(stacks) # 1
  THEN [stack |-> <<>>, err |-> <<"fmt", "could not load stack: ", name>>]
  ELSE [stack |-> <<stacks[1]>>, err |-> NoError]

(* ------------------------ updateStack: the request --------------------- *)

\* pexisting: the parameter keys of the described stack
ExistingParams(stack) == ParamKeys(stack.Parameters)

RECURSIVE updateParameters(_, _, _)
\* the loop over the sorted parameter names that fills req.Parameters
updateParameters(sorted, changes, pexisting) ==
  IF sorted = <<>> THEN <<>>
  ELSE LET param == Head(sorted)
           entry ==
             IF param \in DOMAIN changes
             THEN <<[ParameterKey |-> param, ParameterValue |-> changes[param],
                     UsePreviousValue |-> Nil]>>
             ELSE IF param \in pexisting
             THEN <<[ParameterKey |-> param, ParameterValue |-> Nil,
                     UsePreviousValue |-> "true"]>>
             ELSE <<>>
       IN entry \o updateParameters(Tail(sorted), changes, pexisting)

\* req.Tags: the described stack's tags followed by the supplied tags in
\* ascending order of key
updateTags(stackTags, tags) ==
  LET tks == SortStrings(DOMAIN tags)
  IN stackTags \o [i \in 1..Len(tks) |-> [Key |-> tks[i], Value |-> tags[tks[i]]]]

\* the target parameter set: the document's parameter names when a document
\* is supplied, the described stack's parameter set otherwise
targetParams(template, fp, pexisting) ==
  IF template # <<>> THEN fp ELSE pexisting

\* updateStackInput setting ClientRequestToken whatever id is
updateStackInputTokenAlways(name, template, tu, fp, stack, changes, tags, id) ==
  [Capabilities |-> <<"CAPABILITY_IAM">>,
   StackName |-> name,
   NotificationARNs |-> <<CloudformationTopic>>,
   ClientRequestToken |-> id,
   TemplateURL |-> IF template # <<>> THEN tu ELSE <<>>,
   UsePreviousTemplate |-> IF template # <<>> THEN Nil ELSE "true",
   Parameters |-> updateParameters(
                    SortStrings(targetParams(template, fp, ExistingParams(stack))),
                    changes, ExistingParams(stack)),
   Tags |-> updateTags(stack.Tags, tags)]

\* the UpdateStackInput built from the described stack; tu is the URL of the
\* externalized document and fp its parameter names (unused without document)
updateStackInput(name, template, tu, fp, stack, changes, tags, id) ==
  [Capabilities |-> <<"CAPABILITY_IAM">>,
   StackName |-> name,
   NotificationARNs |-> <<CloudformationTopic>>,
   ClientRequestToken |-> IF id # "" THEN id ELSE Nil,
   TemplateURL |-> IF template # <<>> THEN tu ELSE <<>>,
   UsePreviousTemplate |-> IF template # <<>> THEN Nil ELSE "true",
   Parameters |-> updateParameters(
                    SortStrings(targetParams(template, fp, ExistingParams(stack))),
                    changes, ExistingParams(stack)),
   Tags |-> updateTags(stack.Tags, tags)]

(* ------------------------ createStack: the request --------------------- *)

\* the orders in which a range over a Go map may yield the keys of S
Orders(S) ==
  {o \in [1..Cardinality(S) -> S] : \A i, j \in 1..Cardinality(S) : o[i] = o[j] => i = j}

\* the CreateStackInput; pord and tord are the iteration orders of the maps
createStackInput(name, body, params, tags, pord, tord) ==
  [Capabilities |-> <<"CAPABILITY_IAM">>,
   StackName |-> name,
   TemplateBody |-> body,
   NotificationARNs |-> <<CloudformationTopic>>,
   Parameters |-> [i \in 1..Len(pord) |->
                     [ParameterKey |-> pord[i], ParameterValue |-> params[pord[i]],
                      UsePreviousValue |-> Nil]],
   Tags |-> [i \in 1..Len(tord) |-> [Key |-> tord[i], Value |-> tags[tord[i]]]]]

(* -------------------- provider: mutations of the stack ----------------- *)

\* the parameters and tags a stack takes from an accepted request; doc is the
\* <<Parameters member>> of the new template, <<>> when the previous one is kept
AppliedStack(st, doc, ps, ts) ==
  LET keys == IF doc # <<>> THEN DOMAIN doc[1] ELSE DOMAIN st.Parameters
  IN [exists |-> TRUE,
      LastUpdatedTime |-> IF st.exists THEN st.LastUpdatedTime + 1 ELSE 0,
      Parameters |->
        [k \in keys |->
           IF k \in ParamKeys(ps)
           THEN IF ParamEntry(ps, k).ParameterValue # Nil
                THEN ParamEntry(ps, k).ParameterValue
                ELSE st.Parameters[k]
           ELSE IF doc # <<>> THEN doc[1][k].Default ELSE st.Parameters[k]],
      Tags |-> [k \in TagKeysOf(ts) |-> TagEntry(ts, k).Value]]

\* the Parameters member of the template a request names: <<member>> or <<>>
RequestTemplate(objs, rq) ==
  LET at == ObjectAt(objs, rq.TemplateURL)
  IN IF at # <<>> /\ parseFormation(at[1]).err = NoError
     THEN <<parseFormation(at[1]).f[1].Parameters>>
     ELSE <<>>

\* whether the provider can accept an update request
UpdateAcceptable(st, objs, rq) ==
  /\ st.exists
  /\ \/ rq.UsePreviousTemplate = "true" /\ rq.TemplateURL = <<>>
     \/ rq.UsePreviousTemplate = Nil /\ RequestTemplate(objs, rq) # <<>>
  /\ LET keys == IF rq.UsePreviousTemplate = "true" THEN DOMAIN st.Parameters
                 ELSE DOMAIN RequestTemplate(objs, rq)[1]
     IN /\ ParamKeys(rq.Parameters) \subseteq keys
        /\ \A i \in 1..Len(rq.Parameters) :
             /\ (rq.Parameters[i].ParameterValue = Nil) # (rq.Parameters[i].UsePreviousValue = Nil)
             /\ rq.Parameters[i].UsePreviousValue = "true"
                  => rq.Parameters[i].ParameterKey \in DOMAIN st.Parameters

\* UpdateStack(req): the stack after the call and the error it returns
ProviderUpdateStack(st, objs, rq) ==
  {[stack |-> st, err |-> e] : e \in {ErrThrottling, ErrInProgress, ErrNoUpdates}}
  \cup
  (IF UpdateAcceptable(st, objs, rq)
   THEN {[stack |-> AppliedStack(st,
                      IF rq.UsePreviousTemplate = "true" THEN <<>> ELSE RequestTemplate(objs, rq),
                      rq.Parameters, rq.Tags),
          err |-> NoError]}
   ELSE {})

\* CreateStack(req): the stack after the call and the error it returns
ProviderCreateStack(st, rq) ==
  {[stack |-> st, err |-> ErrThrottling]}
  \cup
  (IF st.exists THEN {[stack |-> st, err |-> ErrAlreadyExists]}
   ELSE IF parseFormation(rq.TemplateBody).err # NoError
           \/ ~(ParamKeys(rq.Parameters) \subseteq DOMAIN parseFormation(rq.TemplateBody).f[1].Parameters)
   THEN {[stack |-> st, err |-> ErrTemplate]}
   ELSE {[stack |-> AppliedStack(st, <<parseFormation(rq.TemplateBody).f[1].Parameters>>,
                                 rq.Parameters, rq.Tags),
          err |-> NoError]})

(* -------------------------------- state -------------------------------- *)

VARIABLES
  stack,      \* the provider's live stack named StackName
  objects,    \* the object store: key -> body
  cache,      \* pkg/cache: <<operation, key>> -> entry
  skipCache,  \* Provider.SkipCache
  pc,         \* where each task stands
  dstacks,    \* describeStacks: the stacks it returns, per task
  derr,       \* describeStacks: the error it returns, per task
  dhit,       \* describeStacks: whether the cache served the result, per task
  mop,        \* the operation the lifecycle task runs or ran last
  args,       \* updateStack: its arguments
  ustack,     \* updateStack: the described stack, <<>> before describeStack
  req,        \* updateStack: the request, <<>> before it is built
  uerr,       \* updateStack: err as assigned by the UpdateStack call
  submits,    \* provider update requests issued by the current call
  stores,     \* object store writes issued by the current call
  calls,      \* calls the lifecycle task has made
  ret,        \* the error the last createStack / updateStack returned
  rcall,      \* the stack operation a reader runs and its input, per reader
  ritem,      \* the output that operation has so far, per reader
  original,   \* humanStatus: its argument
  human,      \* humanStatus: its result, <<>> before the call
  times,      \* retry: its argument times
  interval,   \* retry: its argument interval, in nanoseconds
  firstOk,    \* retry: the invocation of fn that is the first to succeed
  rpc,        \* retry: where the loop stands
  iter,       \* retry: its counter i
  invocations,\* retry: invocations of fn so far
  ferr,       \* retry: err of the last invocation of fn
  sleeps,     \* retry: the durations slept so far, in nanoseconds
  jitterN,    \* retry: the argument of the last rand.Intn
  rret,       \* retry: what it returned
  eframes,    \* the task and container calls in progress, innermost last
  elast,      \* what the last finished outermost call returned
  wname,      \* waitForServerCertificate: its argument name
  wpc,        \* waitForServerCertificate: where the loop stands
  confirmations, \* waitForServerCertificate: its counter
  wnow,       \* the clock, in seconds since waitForServerCertificate began
  wdone,      \* waitForServerCertificate: its deadline done
  recent,     \* the answers to the last probes, oldest first
  probeAt,    \* when the last probe was issued, <<>> before the first
  wret,       \* waitForServerCertificate: what it returned
  rackEnv,    \* the environment variable RACK
  cr,         \* the CronJob that LongName is called on
  longName,   \* what LongName returned, <<>> before the call
  earlier,    \* the call of LongName before this one: its inputs and result
  toggles,    \* the values the stack has for its parameters
  context,    \* the data app.json.tmpl is executed on
  m1,         \* the manifest appCronJobs is called on
  doc,        \* the document compiled, <<>> before
  cronjobs,   \* what appCronJobs returned, <<>> before
  before,     \* what compiling the same manifest gave the time before
  om,         \* the manifest runOrder is called on
  services,   \* runOrder: its slice services
  oi,         \* runOrder: its counter i
  oj,         \* runOrder: its counter j
  opc,        \* runOrder: where the loops stand
  lreq,       \* putLogEvents: its argument req
  attempts,   \* putLogEvents: its counter attempts
  lerr,       \* putLogEvents: err of the last PutLogEvents call
  lpc,        \* putLogEvents: where the loop stands
  lcalls,     \* putLogEvents: the provider calls made so far and their answers
  lret,       \* putLogEvents: what it returned, <<>> before
  manifest,   \* the manifest Load has read
  verr,       \* what Manifest.Validate returned
  ljobs,      \* what appCronJobs made of the manifest, <<>> before
  vpc,        \* where the loading of the manifest stands
  kcall,      \* the keyed describe call in progress, <<>> when none is
  klast       \* the keyed describe call that returned last, <<>> before

\* the state of humanStatus
hsvars == <<original, human>>

\* the state of retry
rtvars ==
  <<times, interval, firstOk, rpc, iter, invocations, ferr, sleeps, jitterN, rret>>

\* the state of the task and container calls
ecsvars == <<eframes, elast>>

\* the state of waitForServerCertificate
certvars == <<wname, wpc, confirmations, wnow, wdone, recent, probeAt, wret>>

\* the state of CronJob.LongName
namevars == <<rackEnv, cr, longName, earlier>>

\* the state of the compiler
compvars == <<toggles, context, m1, doc, cronjobs, before>>

\* the state of Manifest.runOrder
ordervars == <<om, services, oi, oj, opc>>

\* the state of putLogEvents
logvars == <<lreq, attempts, lerr, lpc, lcalls, lret>>

\* the state of the loading of a manifest
labelvars == <<manifest, verr, ljobs, vpc>>

\* the state of the describe calls with several inputs
keyvars == <<kcall, klast>>

yvars == <<ordervars, logvars, labelvars, keyvars>>

\* the state of the helpers that touch neither the stacks nor the cache
xvars == <<certvars, namevars, compvars, yvars>>

hvars == <<hsvars, rtvars, ecsvars, xvars>>

\* the state of the stack operations
svars ==
  <<stack, objects, pc, dstacks, derr, dhit, mop, args, ustack, req, uerr,
    submits, stores, calls, ret, rcall, ritem>>

vars ==
  <<stack, objects, cache, skipCache, pc, dstacks, derr, dhit, mop, args,
    ustack, req, uerr, submits, stores, calls, ret, rcall, ritem, hvars>>

\* the state of the readers' other stack operations
opvars == <<rcall, ritem>>

NoCall == [op |-> "none", logical |-> "", token |-> Nil]

NoArgs ==
  [template |-> <<>>, changes |-> MapFrom({}), tags |-> MapFrom({}), id |-> ""]

\* no call of humanStatus, of retry or of a task or container call was made
HelpersIdle ==
  /\ original = ""
  /\ human = <<>>
  /\ times = 0
  /\ interval = 0
  /\ firstOk = 1
  /\ rpc = "idle"
  /\ iter = 0
  /\ invocations = 0
  /\ ferr = NoError
  /\ sleeps = <<>>
  /\ jitterN = 0
  /\ rret = NoError
  /\ eframes = <<>>
  /\ elast = <<>>

\* no call of waitForServerCertificate was made
CertIdle ==
  /\ wname = ""
  /\ wpc = "idle"
  /\ confirmations = 0
  /\ wnow = 0
  /\ wdone = 0
  /\ recent = <<>>
  /\ probeAt = <<>>
  /\ wret = NoError

\* no call of CronJob.LongName was made
NamesIdle ==
  /\ rackEnv = ""
  /\ cr = [Name |-> "", Service |-> [Name |-> ""], App |-> [Name |-> ""]]
  /\ longName = <<>>
  /\ earlier = <<>>

\* nothing was compiled
CompileIdle ==
  /\ toggles = [Isolate |-> "", Private |-> "", FargateServices |-> "",
                FargateTimers |-> "", Capacity |-> ""]
  /\ context =
       [App |-> "", Topic |-> "", Manifest |-> <<>>, Certificates |-> <<>>,
        Release |-> [Id |-> ""], ResourceParams |-> <<>>]
  /\ m1 = [Services |-> <<>>]
  /\ doc = <<>>
  /\ cronjobs = <<>>
  /\ before = <<>>

\* no call of Manifest.runOrder was made
OrderIdle ==
  /\ om = [Services |-> <<>>]
  /\ services = <<>>
  /\ oi = 0
  /\ oj = 0
  /\ opc = "idle"

\* no call of putLogEvents was made
LogsIdle ==
  /\ lreq = [SequenceToken |-> Nil]
  /\ attempts = 0
  /\ lerr = NoError
  /\ lpc = "idle"
  /\ lcalls = <<>>
  /\ lret = <<>>

\* no manifest was loaded
LabelsIdle ==
  /\ manifest = [Services |-> <<>>]
  /\ verr = NoError
  /\ ljobs = <<>>
  /\ vpc = "idle"

\* no describe call with several inputs was made
KeysIdle ==
  /\ kcall = <<>>
  /\ klast = <<>>

Init ==
  /\ stack \in {NoStack, LiveStack}
  /\ objects = MapFrom({})
  /\ cache = MapFrom({})
  /\ skipCache \in BOOLEAN
  /\ pc = [p \in Procs |-> "idle"]
  /\ dstacks = [p \in Procs |-> <<>>]
  /\ derr = [p \in Procs |-> NoError]
  /\ dhit = [p \in Procs |-> FALSE]
  /\ mop = "none"
  /\ args = NoArgs
  /\ ustack = <<>>
  /\ req = <<>>
  /\ uerr = NoError
  /\ submits = 0
  /\ stores = 0
  /\ calls = 0
  /\ ret = NoError
  /\ rcall = [r \in Readers |-> NoCall]
  /\ ritem = [r \in Readers |-> <<>>]
  /\ HelpersIdle
  /\ CertIdle
  /\ NamesIdle
  /\ CompileIdle
  /\ OrderIdle
  /\ LogsIdle
  /\ LabelsIdle
  /\ KeysIdle

(* ---------------------------- describeStacks --------------------------- *)

\* cache.Get("describeStacks", input.StackName) and the return on a hit
DescribeStacksGet(p) ==
  /\ pc[p] = "ds_get"
  /\ LET hit == cacheGet(cache, "describeStacks", KeyOf(StackName))
     IN IF hit # <<>>
        THEN /\ dstacks' = [dstacks EXCEPT ![p] = hit[1]]
             /\ dhit' = [dhit EXCEPT ![p] = TRUE]
             /\ pc' = [pc EXCEPT ![p] = "ds_ret"]
        ELSE /\ pc' = [pc EXCEPT ![p] = "ds_call"]
             /\ UNCHANGED <<dstacks, dhit>>
  /\ UNCHANGED <<stack, objects, cache, skipCache, derr, mop, args, ustack, req,
                 uerr, submits, stores, calls, ret>>
  /\ UNCHANGED opvars
  /\ UNCHANGED hvars

\* DescribeStacksPages and the return on an error or when SkipCache is set
DescribeStacksCall(p) ==
  /\ pc[p] = "ds_call"
  /\ \E o \in ProviderDescribeStacks(stack) :
       /\ dstacks' = [dstacks EXCEPT ![p] = o.stacks]
       /\ derr' = [derr EXCEPT ![p] = o.err]
       /\ pc' = [pc EXCEPT ![p] = IF o.err # NoError \/ skipCache THEN "ds_ret" ELSE "ds_set"]
  /\ UNCHANGED <<stack, objects, cache, skipCache, dhit, mop, args, ustack, req,
                 uerr, submits, stores, calls, ret>>
  /\ UNCHANGED opvars
  /\ UNCHANGED hvars

\* cache.Set("describeStacks", input.StackName, stacks, 5*time.Second)
DescribeStacksSet(p) ==
  /\ pc[p] = "ds_set"
  /\ cache' = cacheSet(cache, "describeStacks", KeyOf(StackName), dstacks[p], 5, calls)
  /\ pc' = [pc EXCEPT ![p] = "ds_ret"]
  /\ UNCHANGED <<stack, objects, skipCache, dstacks, derr, dhit, mop, args, ustack,
                 req, uerr, submits, stores, calls, ret>>
  /\ UNCHANGED opvars
  /\ UNCHANGED hvars

(* ------------------------------- readers ------------------------------- *)

\* a reader calls describeStack(name)
ReaderCall(r) ==
  /\ pc[r] = "idle"
  /\ pc' = [pc EXCEPT ![r] = "ds_get"]
  /\ UNCHANGED <<stack, objects, cache, skipCache, dstacks, derr, dhit, mop, args,
                 ustack, req, uerr, submits, stores, calls, ret>>
  /\ UNCHANGED opvars
  /\ UNCHANGED hvars

\* describeStack returns to the reader
ReaderReturn(r) ==
  /\ pc[r] = "ds_ret"
  /\ pc' = [pc EXCEPT ![r] = "idle"]
  /\ dstacks' = [dstacks EXCEPT ![r] = <<>>]
  /\ derr' = [derr EXCEPT ![r] = NoError]
  /\ dhit' = [dhit EXCEPT ![r] = FALSE]
  /\ UNCHANGED <<stack, objects, cache, skipCache, mop, args, ustack, req, uerr,
                 submits, stores, calls, ret>>
  /\ UNCHANGED opvars
  /\ UNCHANGED hvars

\* an entry of the cache reaches its expiry
EntryExpires ==
  /\ \E k \in DOMAIN cache :
       /\ ~cache[k].expired
       /\ cache' = [cache EXCEPT ![k].expired = TRUE]
  /\ UNCHANGED <<stack, objects, skipCache, pc, dstacks, derr, dhit, mop, args,
                 ustack, req, uerr, submits, stores, calls, ret>>
  /\ UNCHANGED opvars
  /\ UNCHANGED hvars

(* ----------------------- other stack descriptions --------------------- *)

\* describeStackEvents, describeStackResource and describeStackResources share
\* one shape: cache.Get, the provider call, cache.Set
DescribeOps == {"describeStackEvents", "describeStackResource", "describeStackResources"}

LogicalIds == {"Web"}

\* the cache key of a call: the stack name, or name.logical for
\* describeStackResource
StackOpKey(c) ==
  IF c.op = "describeStackResource" THEN <<StackName, ".", c.logical>>
  ELSE KeyOf(StackName)

\* what the provider knows of a resource of the live stack
ResourceOf(st, logical) ==
  [LogicalResourceId |-> logical, Timestamp |-> st.LastUpdatedTime]

\* DescribeStackEvents / DescribeStackResource / DescribeStackResources
ProviderDescribeOp(st, c) ==
  IF st.exists
  THEN {[out |-> <<ResourceOf(st, IF c.op = "describeStackResource" THEN c.logical ELSE "Web")>>,
         err |-> NoError],
        [out |-> <<>>, err |-> ErrThrottling]}
  ELSE {[out |-> <<>>, err |-> ErrNoSuchStack],
        [out |-> <<>>, err |-> ErrThrottling]}

\* ListStackResources(StackName, NextToken): one page and the next token
ProviderListStackResources(st, token) ==
  IF ~st.exists
  THEN {[page |-> <<>>, NextToken |-> Nil, err |-> ErrNoSuchStack]}
  ELSE {[page |-> <<>>, NextToken |-> Nil, err |-> ErrThrottling]}
       \cup
       (IF token = Nil
        THEN {[page |-> <<ResourceOf(st, "Web")>>, NextToken |-> t, err |-> NoError] :
                t \in {Nil, "page2"}}
        ELSE {[page |-> <<ResourceOf(st, "Worker")>>, NextToken |-> Nil, err |-> NoError]})

\* a wrapper returns to the reader with what ritem holds
StackOpReturns(r) ==
  /\ pc' = [pc EXCEPT ![r] = "op_ret"]

\* a reader calls one of the describe wrappers for the stack
DescribeOpBegin(r, op, logical) ==
  /\ pc[r] = "idle"
  /\ rcall' = [rcall EXCEPT ![r] = [op |-> op, logical |-> logical, token |-> Nil]]
  /\ pc' = [pc EXCEPT ![r] = "op_get"]
  /\ UNCHANGED <<stack, objects, cache, skipCache, dstacks, derr, dhit, mop, args,
                 ustack, req, uerr, submits, stores, calls, ret, ritem>>
  /\ UNCHANGED hvars

\* cache.Get(op, key) and the return on a hit
DescribeOpGet(r) ==
  /\ pc[r] = "op_get"
  /\ rcall[r].op \in DescribeOps
  /\ LET hit == cacheGet(cache, rcall[r].op, StackOpKey(rcall[r]))
     IN IF hit # <<>>
        THEN ritem' = [ritem EXCEPT ![r] = hit[1]] /\ StackOpReturns(r)
        ELSE pc' = [pc EXCEPT ![r] = "op_call"] /\ UNCHANGED ritem
  /\ UNCHANGED <<stack, objects, cache, skipCache, dstacks, derr, dhit, mop, args,
                 ustack, req, uerr, submits, stores, calls, ret, rcall>>
  /\ UNCHANGED hvars

\* the provider call and the return on an error or when SkipCache is set
DescribeOpCall(r) ==
  /\ pc[r] = "op_call"
  /\ rcall[r].op \in DescribeOps
  /\ \E o \in ProviderDescribeOp(stack, rcall[r]) :
       /\ ritem' = [ritem EXCEPT ![r] = o.out]
       /\ IF o.err # NoError \/ skipCache THEN StackOpReturns(r)
          ELSE pc' = [pc EXCEPT ![r] = "op_set"]
  /\ UNCHANGED <<stack, objects, cache, skipCache, dstacks, derr, dhit, mop, args,
                 ustack, req, uerr, submits, stores, calls, ret, rcall>>
  /\ UNCHANGED hvars

\* cache.Set(op, key, res, 5*time.Second)
DescribeOpSet(r) ==
  /\ pc[r] = "op_set"
  /\ rcall[r].op \in DescribeOps
  /\ cache' = cacheSet(cache, rcall[r].op, StackOpKey(rcall[r]), ritem[r], 5, calls)
  /\ StackOpReturns(r)
  /\ UNCHANGED <<stack, objects, skipCache, dstacks, derr, dhit, mop, args,
                 ustack, req, uerr, submits, stores, calls, ret, rcall, ritem>>
  /\ UNCHANGED hvars

\* a reader calls listStackResources(stack)
ListStackResourcesBegin(r) ==
  /\ pc[r] = "idle"
  /\ rcall' = [rcall EXCEPT ![r] = [op |-> "listStackResources", logical |-> "", token |-> Nil]]
  /\ pc' = [pc EXCEPT ![r] = "op_get"]
  /\ UNCHANGED <<stack, objects, cache, skipCache, dstacks, derr, dhit, mop, args,
                 ustack, req, uerr, submits, stores, calls, ret, ritem>>
  /\ UNCHANGED hvars

\* cache.Get("listStackResources", stack) and the return on a hit
ListStackResourcesGet(r) ==
  /\ pc[r] = "op_get"
  /\ rcall[r].op = "listStackResources"
  /\ LET hit == cacheGet(cache, "listStackResources", KeyOf(StackName))
     IN IF hit # <<>>
        THEN ritem' = [ritem EXCEPT ![r] = hit[1]] /\ StackOpReturns(r)
        ELSE pc' = [pc EXCEPT ![r] = "op_call"] /\ UNCHANGED ritem
  /\ UNCHANGED <<stack, objects, cache, skipCache, dstacks, derr, dhit, mop, args,
                 ustack, req, uerr, submits, stores, calls, ret, rcall>>
  /\ UNCHANGED hvars

\* one round of the page loop: an error returns nil, a page is appended, the
\* loop ends on the page without NextToken
ListStackResourcesPage(r) ==
  /\ pc[r] = "op_call"
  /\ rcall[r].op = "listStackResources"
  /\ \E o \in ProviderListStackResources(stack, rcall[r].token) :
       IF o.err # NoError
       THEN /\ ritem' = [ritem EXCEPT ![r] = <<>>]
            /\ StackOpReturns(r)
            /\ UNCHANGED rcall
       ELSE /\ ritem' = [ritem EXCEPT ![r] = ritem[r] \o o.page]
            /\ rcall' = [rcall EXCEPT ![r].token = o.NextToken]
            /\ IF o.NextToken # Nil THEN UNCHANGED pc
               ELSE IF skipCache THEN StackOpReturns(r)
               ELSE pc' = [pc EXCEPT ![r] = "op_set"]
  /\ UNCHANGED <<stack, objects, cache, skipCache, dstacks, derr, dhit, mop, args,
                 ustack, req, uerr, submits, stores, calls, ret>>
  /\ UNCHANGED hvars

\* cache.Set("listStackResources", stack, srs, 5*time.Second)
ListStackResourcesSet(r) ==
  /\ pc[r] = "op_set"
  /\ rcall[r].op = "listStackResources"
  /\ cache' = cacheSet(cache, "listStackResources", KeyOf(StackName), ritem[r], 5, calls)
  /\ StackOpReturns(r)
  /\ UNCHANGED <<stack, objects, skipCache, dstacks, derr, dhit, mop, args,
                 ustack, req, uerr, submits, stores, calls, ret, rcall, ritem>>
  /\ UNCHANGED hvars

\* the wrapper's result is taken by the reader
StackOpDone(r) ==
  /\ pc[r] = "op_ret"
  /\ pc' = [pc EXCEPT ![r] = "idle"]
  /\ rcall' = [rcall EXCEPT ![r] = NoCall]
  /\ ritem' = [ritem EXCEPT ![r] = <<>>]
  /\ UNCHANGED <<stack, objects, cache, skipCache, dstacks, derr, dhit, mop, args,
                 ustack, req, uerr, submits, stores, calls, ret>>
  /\ UNCHANGED hvars

(* ------------------------------ createStack ---------------------------- *)

CreateParamMaps ==
  { MapFrom({<<"B", "2">>}),
    MapFrom({<<"D", "5">>}) }

\* createStack(name, body, params, tags): builds the request, calls the
\* provider and returns its error
CreateStack(body, params, tags) ==
  /\ pc[Manager] = "idle"
  /\ calls < MaxCalls
  /\ calls' = calls + 1
  /\ \E pord \in Orders(DOMAIN params), tord \in Orders(DOMAIN tags) :
       \E o \in ProviderCreateStack(stack,
                  createStackInput(StackName, body, params, tags, pord, tord)) :
         /\ stack' = o.stack
         /\ ret' = o.err
  /\ mop' = "createStack"
  /\ uerr' = NoError
  /\ submits' = 0
  /\ stores' = 0
  /\ UNCHANGED <<objects, cache, skipCache, pc, dstacks, derr, dhit, args, ustack, req>>
  /\ UNCHANGED opvars
  /\ UNCHANGED hvars

(* ------------------------------ updateStack ---------------------------- *)

\* updateStack returns err: its locals are gone
UpdateStackReturns(err) ==
  /\ pc' = [pc EXCEPT ![Manager] = "idle"]
  /\ ret' = err
  /\ args' = NoArgs
  /\ ustack' = <<>>
  /\ req' = <<>>
  /\ dstacks' = [dstacks EXCEPT ![Manager] = <<>>]
  /\ derr' = [derr EXCEPT ![Manager] = NoError]
  /\ dhit' = [dhit EXCEPT ![Manager] = FALSE]

\* entry: the two cache.Clear calls, then describeStack(name) is called
UpdateStackCall(template, changes, tags, id) ==
  /\ pc[Manager] = "idle"
  /\ calls < MaxCalls
  /\ calls' = calls + 1
  /\ cache' = cacheClear(cacheClear(cache, "describeStacks", NilKey),
                         "describeStacks", KeyOf(StackName))
  /\ mop' = "updateStack"
  /\ args' = [template |-> template, changes |-> changes, tags |-> tags, id |-> id]
  /\ pc' = [pc EXCEPT ![Manager] = "ds_get"]
  /\ uerr' = NoError
  /\ submits' = 0
  /\ stores' = 0
  /\ ret' = NoError
  /\ UNCHANGED <<stack, objects, skipCache, dstacks, derr, dhit, ustack, req>>
  /\ UNCHANGED opvars
  /\ UNCHANGED hvars

\* describeStack(name) returns: its error is returned, or the stack is kept
UpdateStackDescribed ==
  /\ pc[Manager] = "ds_ret"
  /\ LET r == describeStack(StackName, dstacks[Manager], derr[Manager])
     IN IF r.err # NoError
        THEN UpdateStackReturns(r.err)
        ELSE /\ ustack' = r.stack
             /\ pc' = [pc EXCEPT ![Manager] = "template"]
             /\ UNCHANGED <<ret, args, req, dstacks, derr, dhit>>
  /\ UNCHANGED <<stack, objects, cache, skipCache, mop, uerr, submits, stores, calls>>
  /\ UNCHANGED opvars
  /\ UNCHANGED hvars

\* template != nil: the document is stored, its URL and its parameter names
\* are taken and the request is built
UpdateStackStoreTemplate ==
  /\ pc[Manager] = "template"
  /\ args.template # <<>>
  /\ \E o \in ObjectStore(IF IsTest THEN "test-key" ELSE "", args.template[1]) :
       /\ objects' = IF o.wrote = <<>> THEN objects
                     ELSE [k \in DOMAIN objects \cup {o.wrote[1].key} |->
                             IF k = o.wrote[1].key THEN o.wrote[1].body ELSE objects[k]]
       /\ stores' = IF o.wrote = <<>> THEN stores ELSE stores + 1
       /\ LET tu == objectURL(o.Url)
              fp == formationParameters(args.template[1])
          IN IF o.err # NoError THEN UpdateStackReturns(o.err)
             ELSE IF tu.err # NoError THEN UpdateStackReturns(tu.err)
             ELSE IF fp.err # NoError THEN UpdateStackReturns(fp.err)
             ELSE /\ req' = <<updateStackInput(StackName, args.template, tu.url, fp.params,
                                               ustack[1], args.changes, args.tags, args.id)>>
                  /\ pc' = [pc EXCEPT ![Manager] = "submit"]
                  /\ UNCHANGED <<ret, args, ustack, dstacks, derr, dhit>>
  /\ UNCHANGED <<stack, cache, skipCache, mop, uerr, submits, calls>>
  /\ UNCHANGED opvars
  /\ UNCHANGED hvars

\* template == nil: the previous template and the existing parameter set
UpdateStackPreviousTemplate ==
  /\ pc[Manager] = "template"
  /\ args.template = <<>>
  /\ req' = <<updateStackInput(StackName, args.template, <<>>, {},
                               ustack[1], args.changes, args.tags, args.id)>>
  /\ pc' = [pc EXCEPT ![Manager] = "submit"]
  /\ UNCHANGED <<stack, objects, cache, skipCache, dstacks, derr, dhit, mop, args,
                 ustack, uerr, submits, stores, calls, ret>>
  /\ UNCHANGED opvars
  /\ UNCHANGED hvars

\* _, err = p.cloudformation().UpdateStack(req)
UpdateStackSubmit ==
  /\ pc[Manager] = "submit"
  /\ \E o \in ProviderUpdateStack(stack, objects, req[1]) :
       /\ stack' = o.stack
       /\ uerr' = o.err
  /\ submits' = submits + 1
  /\ pc' = [pc EXCEPT ![Manager] = "clear"]
  /\ UNCHANGED <<objects, cache, skipCache, dstacks, derr, dhit, mop, args, ustack,
                 req, stores, calls, ret>>
  /\ UNCHANGED opvars
  /\ UNCHANGED hvars

\* the return that treats "No updates are to be performed." as success
UpdateStackReturnSwallows ==
  /\ pc[Manager] = "clear"
  /\ cache' = cacheClear(cacheClear(cache, "describeStacks", NilKey),
                         "describeStacks", KeyOf(StackName))
  /\ UpdateStackReturns(IF uerr = ErrNoUpdates THEN NoError ELSE uerr)
  /\ UNCHANGED <<stack, objects, skipCache, mop, uerr, submits, stores, calls>>
  /\ UNCHANGED opvars
  /\ UNCHANGED hvars

\* the two cache.Clear calls after the request, and return err
UpdateStackReturn ==
  /\ pc[Manager] = "clear"
  /\ cache' = cacheClear(cacheClear(cache, "describeStacks", NilKey),
                         "describeStacks", KeyOf(StackName))
  /\ UpdateStackReturns(uerr)
  /\ UNCHANGED <<stack, objects, skipCache, mop, uerr, submits, stores, calls>>
  /\ UNCHANGED opvars
  /\ UNCHANGED hvars

(* ---------------------------- specification ---------------------------- *)

Next ==
  \/ \E p \in Procs : DescribeStacksGet(p)
  \/ \E p \in Procs : DescribeStacksCall(p)
  \/ \E p \in Procs : DescribeStacksSet(p)
  \/ \E r \in Readers : ReaderCall(r)
  \/ \E r \in Readers : ReaderReturn(r)
  \/ EntryExpires
  \/ \E body \in Docs, params \in CreateParamMaps, tags \in TagMaps :
       CreateStack(body, params, tags)
  \/ \E template \in Templates, changes \in ChangeMaps, tags \in TagMaps, id \in Tokens :
       UpdateStackCall(template, changes, tags, id)
  \/ UpdateStackDescribed
  \/ UpdateStackStoreTemplate
  \/ UpdateStackPreviousTemplate
  \/ UpdateStackSubmit
  \/ UpdateStackReturn

Spec == Init /\ [][Next]_vars

\* updateStack beside readers of the other stack descriptions
NextOps ==
  \/ DescribeStacksGet(Manager)
  \/ DescribeStacksCall(Manager)
  \/ DescribeStacksSet(Manager)
  \/ \E r \in Readers, op \in DescribeOps, logical \in LogicalIds :
       DescribeOpBegin(r, op, logical)
  \/ \E r \in Readers : DescribeOpGet(r)
  \/ \E r \in Readers : DescribeOpCall(r)
  \/ \E r \in Readers : DescribeOpSet(r)
  \/ \E r \in Readers : ListStackResourcesBegin(r)
  \/ \E r \in Readers : ListStackResourcesGet(r)
  \/ \E r \in Readers : ListStackResourcesPage(r)
  \/ \E r \in Readers : ListStackResourcesSet(r)
  \/ \E r \in Readers : StackOpDone(r)
  \/ \E template \in {<<>>, <<DocABC>>} :
       UpdateStackCall(template, MapFrom({<<"A", "9">>}), MapFrom({}), "")
  \/ UpdateStackDescribed
  \/ UpdateStackStoreTemplate
  \/ UpdateStackPreviousTemplate
  \/ UpdateStackSubmit
  \/ UpdateStackReturn

SpecOps == Init /\ [][NextOps]_vars

(* ------------------------------ humanStatus ---------------------------- *)

\* the status strings humanStatus is called with: the CloudFormation stack
\* statuses it knows and some it does not
Statuses ==
  {"", "CREATE_IN_PROGRESS", "CREATE_COMPLETE", "DELETE_FAILED",
   "DELETE_IN_PROGRESS", "ROLLBACK_IN_PROGRESS", "ROLLBACK_COMPLETE",
   "UPDATE_IN_PROGRESS", "UPDATE_COMPLETE_CLEANUP_IN_PROGRESS",
   "UPDATE_COMPLETE", "UPDATE_ROLLBACK_IN_PROGRESS",
   "UPDATE_ROLLBACK_COMPLETE_CLEANUP_IN_PROGRESS", "UPDATE_ROLLBACK_COMPLETE",
   "UPDATE_ROLLBACK_FAILED",
   "CREATE_FAILED", "DELETE_COMPLETE", "ROLLBACK_FAILED", "REVIEW_IN_PROGRESS",
   "create_complete", " "}

\* humanStatus with DELETE_FAILED read as a failure
humanStatusDeleteFails(s) ==
  CASE s = "" -> "new"
    [] s = "CREATE_IN_PROGRESS" -> "creating"
    [] s = "CREATE_COMPLETE" -> "running"
    [] s = "DELETE_FAILED" -> "failed"
    [] s = "DELETE_IN_PROGRESS" -> "deleting"
    [] s = "ROLLBACK_IN_PROGRESS" -> "rollback"
    [] s = "ROLLBACK_COMPLETE" -> "failed"
    [] s = "UPDATE_IN_PROGRESS" -> "updating"
    [] s = "UPDATE_COMPLETE_CLEANUP_IN_PROGRESS" -> "updating"
    [] s = "UPDATE_COMPLETE" -> "running"
    [] s = "UPDATE_ROLLBACK_IN_PROGRESS" -> "rollback"
    [] s = "UPDATE_ROLLBACK_COMPLETE_CLEANUP_IN_PROGRESS" -> "rollback"
    [] s = "UPDATE_ROLLBACK_COMPLETE" -> "running"
    [] s = "UPDATE_ROLLBACK_FAILED" -> "failed"
    [] OTHER -> "unknown"

\* humanStatus: the switch over the status string; the default case prints
\* the string and returns "unknown"
humanStatus(s) ==
  CASE s = "" -> "new"
    [] s = "CREATE_IN_PROGRESS" -> "creating"
    [] s = "CREATE_COMPLETE" -> "running"
    [] s = "DELETE_FAILED" -> "running"
    [] s = "DELETE_IN_PROGRESS" -> "deleting"
    [] s = "ROLLBACK_IN_PROGRESS" -> "rollback"
    [] s = "ROLLBACK_COMPLETE" -> "failed"
    [] s = "UPDATE_IN_PROGRESS" -> "updating"
    [] s = "UPDATE_COMPLETE_CLEANUP_IN_PROGRESS" -> "updating"
    [] s = "UPDATE_COMPLETE" -> "running"
    [] s = "UPDATE_ROLLBACK_IN_PROGRESS" -> "rollback"
    [] s = "UPDATE_ROLLBACK_COMPLETE_CLEANUP_IN_PROGRESS" -> "rollback"
    [] s = "UPDATE_ROLLBACK_COMPLETE" -> "running"
    [] s = "UPDATE_ROLLBACK_FAILED" -> "failed"
    [] OTHER -> "unknown"

\* a call humanStatus(original)
HumanStatus ==
  /\ human = <<>>
  /\ human' = <<humanStatus(original)>>
  /\ UNCHANGED <<original, rtvars, ecsvars, svars, cache, skipCache, xvars>>

(* --------------------------------- retry ------------------------------- *)

\* the largest times retry is called with
MaxTimes == 3

\* the intervals retry is called with, in nanoseconds
Intervals == {0, 19, 20, 100}

\* the error of the n-th invocation of fn
FnError(n) == <<"fn", ToString(n)>>

\* RetryFn returning the error of the attempt before on a success
RetryFnEarlierError ==
  /\ rpc = "call"
  /\ invocations' = invocations + 1
  /\ ferr' = IF invocations + 1 >= firstOk THEN NoError ELSE FnError(invocations + 1)
  /\ IF ferr' = NoError
     THEN /\ rpc' = "done"
          /\ rret' = ferr
     ELSE /\ rpc' = "failed"
          /\ UNCHANGED rret
  /\ UNCHANGED <<times, interval, firstOk, iter, sleeps, jitterN>>
  /\ UNCHANGED <<hsvars, ecsvars, svars, cache, skipCache, xvars>>

\* err := fn() and the return of nil when err is nil
RetryFn ==
  /\ rpc = "call"
  /\ invocations' = invocations + 1
  /\ ferr' = IF invocations + 1 >= firstOk THEN NoError ELSE FnError(invocations + 1)
  /\ IF ferr' = NoError
     THEN /\ rpc' = "done"
          /\ rret' = NoError
     ELSE /\ rpc' = "failed"
          /\ UNCHANGED rret
  /\ UNCHANGED <<times, interval, firstOk, iter, sleeps, jitterN>>
  /\ UNCHANGED <<hsvars, ecsvars, svars, cache, skipCache, xvars>>

\* time.Sleep(interval + rand.Intn(int(interval/20))), i++ and the return of
\* err when i > times; rand.Intn panics when its argument is not positive
RetrySleep ==
  /\ rpc = "failed"
  /\ jitterN' = interval \div 20
  /\ IF jitterN' <= 0
     THEN /\ rpc' = "panic"
          /\ UNCHANGED <<sleeps, iter, rret>>
     ELSE /\ \E j \in 0..(jitterN' - 1) : sleeps' = Append(sleeps, interval + j)
          /\ iter' = iter + 1
          /\ IF iter' > times
             THEN /\ rpc' = "done"
                  /\ rret' = ferr
             ELSE /\ rpc' = "call"
                  /\ UNCHANGED rret
  /\ UNCHANGED <<times, interval, firstOk, invocations, ferr>>
  /\ UNCHANGED <<hsvars, ecsvars, svars, cache, skipCache, xvars>>

\* no stack operation was called and the cache is empty
StacksIdle ==
  /\ objects = MapFrom({})
  /\ cache = MapFrom({})
  /\ pc = [p \in Procs |-> "idle"]
  /\ dstacks = [p \in Procs |-> <<>>]
  /\ derr = [p \in Procs |-> NoError]
  /\ dhit = [p \in Procs |-> FALSE]
  /\ mop = "none"
  /\ args = NoArgs
  /\ ustack = <<>>
  /\ req = <<>>
  /\ uerr = NoError
  /\ submits = 0
  /\ stores = 0
  /\ calls = 0
  /\ ret = NoError
  /\ rcall = [r \in Readers |-> NoCall]
  /\ ritem = [r \in Readers |-> <<>>]

\* a call of humanStatus and a call of retry, on any of their arguments
InitHelpers ==
  /\ StacksIdle
  /\ stack = NoStack
  /\ skipCache = FALSE
  /\ original \in Statuses
  /\ human = <<>>
  /\ times \in 0..MaxTimes
  /\ interval \in Intervals
  /\ firstOk \in 1..(MaxTimes + 2)
  /\ rpc = "call"
  /\ iter = 0
  /\ invocations = 0
  /\ ferr = NoError
  /\ sleeps = <<>>
  /\ jitterN = 0
  /\ rret = NoError
  /\ eframes = <<>>
  /\ elast = <<>>
  /\ CertIdle
  /\ NamesIdle
  /\ CompileIdle
  /\ OrderIdle
  /\ LogsIdle
  /\ LabelsIdle
  /\ KeysIdle

NextHelpers ==
  \/ HumanStatus
  \/ RetryFn
  \/ RetrySleep

SpecHelpers == InitHelpers /\ [][NextHelpers]_vars

(* ---------------------- task and container calls ----------------------- *)

\* the wrappers of the ECS describe and list calls
EcsWrappers ==
  {"describeContainerInstances", "describeServices", "describeTaskDefinition",
   "describeTasks", "listContainerInstances"}

\* the calls a caller makes in this part
EcsCalls == EcsWrappers \cup {"taskRelease", "taskDefinitionRelease", "stackTemplate"}

\* Ttl with the descriptions of tasks kept for a day
TtlTasksForADay(op) ==
  CASE op \in {"describeContainerInstances", "describeServices"} -> 5
    [] op = "listContainerInstances" -> 10
    [] op \in {"describeTasks", "describeTaskDefinition", "taskRelease",
               "taskDefinitionRelease"} -> 24 * 3600

\* the ttl each call passes to cache.Set, in seconds
Ttl(op) ==
  CASE op \in {"describeContainerInstances", "describeServices"} -> 5
    [] op \in {"describeTasks", "listContainerInstances"} -> 10
    [] op \in {"describeTaskDefinition", "taskRelease", "taskDefinitionRelease"} -> 24 * 3600

TaskId == "t1"
TaskDefinitionArn == "td1"
Release == "R1"

\* the input each call is made with, as the key it gives the cache
EcsKey(op) ==
  CASE op \in {"describeTasks", "taskRelease"} -> <<TaskId>>
    [] op \in {"describeTaskDefinition", "taskDefinitionRelease"} -> <<TaskDefinitionArn>>
    [] op = "stackTemplate" -> <<StackName>>
    [] OTHER -> <<"cluster">>

\* an output of the provider: the failures it reports, the task definitions
\* of the tasks it describes, the convox.release label of the first container
\* definition, the template body; a task definition has one container
\* definition
EcsOutput(failures, tasks, label, body) ==
  [Failures |-> failures, Tasks |-> tasks, Label |-> label, TemplateBody |-> body,
   ContainerDefinitions |-> 1]

\* a task definition without container definitions
NoContainerDefinitions ==
  [EcsOutput(0, <<>>, <<>>, <<>>) EXCEPT !.ContainerDefinitions = 0]

\* the runtime failure of indexing an empty slice
IndexOutOfRange == <<"panic", "index out of range [0] with length 0">>

\* the outcomes of the provider call a wrapper makes
ProviderEcs(op) ==
  CASE op = "describeTasks" ->
         {[res |-> <<EcsOutput(0, <<TaskDefinitionArn>>, <<>>, <<>>)>>, err |-> NoError],
          [res |-> <<EcsOutput(1, <<>>, <<>>, <<>>)>>, err |-> NoError],
          [res |-> <<>>, err |-> ErrThrottling]}
    [] op = "describeTaskDefinition" ->
         {[res |-> <<EcsOutput(0, <<>>, <<Release>>, <<>>)>>, err |-> NoError],
          [res |-> <<EcsOutput(0, <<>>, <<>>, <<>>)>>, err |-> NoError],
          [res |-> <<NoContainerDefinitions>>, err |-> NoError],
          [res |-> <<>>, err |-> AwsErr("ValidationError", "not found")],
          [res |-> <<>>, err |-> ErrThrottling]}
    [] op = "stackTemplate" ->
         {[res |-> <<EcsOutput(0, <<>>, <<>>, <<"body">>)>>, err |-> NoError],
          [res |-> <<EcsOutput(0, <<>>, <<>>, <<>>)>>, err |-> NoError],
          [res |-> <<>>, err |-> ErrThrottling]}
    [] OTHER ->
         {[res |-> <<EcsOutput(0, <<>>, <<>>, <<>>)>>, err |-> NoError],
          [res |-> <<>>, err |-> ErrThrottling]}

\* a call in progress: res is <<>> or <<its result>>
Frame(op, at) == [op |-> op, key |-> EcsKey(op), pc |-> at, res |-> <<>>, err |-> NoError]

\* the innermost call in progress
Top == eframes[Len(eframes)]

\* the calls in progress with the innermost one replaced by f
WithTop(f) == [eframes EXCEPT ![Len(eframes)] = f]

\* the innermost call returns res and err
Returning(res, e) == [Top EXCEPT !.pc = "ret", !.res = res, !.err = e]

\* a caller makes one of the calls; stackTemplate has no cache.Get
EcsBegin(op) ==
  /\ eframes = <<>>
  /\ eframes' = <<Frame(op, IF op = "stackTemplate" THEN "call" ELSE "get")>>
  /\ elast' = <<>>
  /\ UNCHANGED <<cache, skipCache, svars, hsvars, rtvars, xvars>>

\* cache.Get(op, key) and the return on a hit
EcsGet ==
  /\ eframes # <<>>
  /\ Top.pc = "get"
  /\ LET hit == cacheGet(cache, Top.op, Top.key)
     IN eframes' = WithTop(IF hit # <<>> THEN Returning(hit, NoError)
                           ELSE [Top EXCEPT !.pc = "call"])
  /\ UNCHANGED <<elast, cache, skipCache, svars, hsvars, rtvars, xvars>>

\* the provider call of a wrapper with describeTasks caching an output that
\* reports failures
EcsProviderCallCachesFailures ==
  /\ eframes # <<>>
  /\ Top.pc = "call"
  /\ Top.op \in EcsWrappers
  /\ \E o \in ProviderEcs(Top.op) :
       eframes' = WithTop(
         IF o.err # NoError
         THEN IF Top.op = "describeTaskDefinition" /\ IsAwsCode(o.err, "ValidationError")
              THEN Returning(<<>>, <<"fmt", "task definition not found: ", TaskDefinitionArn>>)
              ELSE Returning(<<>>, o.err)
         ELSE IF skipCache
         THEN Returning(o.res, NoError)
         ELSE [Top EXCEPT !.pc = "set", !.res = o.res])
  /\ UNCHANGED <<elast, cache, skipCache, svars, hsvars, rtvars, xvars>>

\* the provider call of a wrapper and the return on an error, when SkipCache
\* is set, or for describeTasks when the output reports failures
EcsProviderCall ==
  /\ eframes # <<>>
  /\ Top.pc = "call"
  /\ Top.op \in EcsWrappers
  /\ \E o \in ProviderEcs(Top.op) :
       eframes' = WithTop(
         IF o.err # NoError
         THEN IF Top.op = "describeTaskDefinition" /\ IsAwsCode(o.err, "ValidationError")
              THEN Returning(<<>>, <<"fmt", "task definition not found: ", TaskDefinitionArn>>)
              ELSE Returning(<<>>, o.err)
         ELSE IF skipCache \/ (Top.op = "describeTasks" /\ o.res[1].Failures # 0)
         THEN Returning(o.res, NoError)
         ELSE [Top EXCEPT !.pc = "set", !.res = o.res])
  /\ UNCHANGED <<elast, cache, skipCache, svars, hsvars, rtvars, xvars>>

\* cache.Set(op, key, res, ttl) and the return of res
EcsSet ==
  /\ eframes # <<>>
  /\ Top.pc = "set"
  /\ cache' = cacheSet(cache, Top.op, Top.key, Top.res[1], Ttl(Top.op), calls)
  /\ eframes' = WithTop(Returning(Top.res, NoError))
  /\ UNCHANGED <<elast, skipCache, svars, hsvars, rtvars, xvars>>

\* stackTemplate: GetTemplate, an error when the output has no body
StackTemplate ==
  /\ eframes # <<>>
  /\ Top.pc = "call"
  /\ Top.op = "stackTemplate"
  /\ \E o \in ProviderEcs("stackTemplate") :
       eframes' = WithTop(
         IF o.err # NoError THEN Returning(<<>>, o.err)
         ELSE IF o.res[1].TemplateBody = <<>>
         THEN Returning(<<>>, <<"fmt", "no template body">>)
         ELSE Returning(o.res[1].TemplateBody, NoError))
  /\ UNCHANGED <<elast, cache, skipCache, svars, hsvars, rtvars, xvars>>

\* taskRelease after its miss: p.describeTasks for the task
TaskReleaseDescribeTasks ==
  /\ eframes # <<>>
  /\ Top.pc = "call"
  /\ Top.op = "taskRelease"
  /\ eframes' = Append(WithTop([Top EXCEPT !.pc = "tasks"]), Frame("describeTasks", "get"))
  /\ UNCHANGED <<elast, cache, skipCache, svars, hsvars, rtvars, xvars>>

\* taskDefinitionRelease after its miss: p.describeTaskDefinition for the arn
TaskDefinitionReleaseDescribe ==
  /\ eframes # <<>>
  /\ Top.pc = "call"
  /\ Top.op = "taskDefinitionRelease"
  /\ eframes' = Append(WithTop([Top EXCEPT !.pc = "definition"]),
                       Frame("describeTaskDefinition", "get"))
  /\ UNCHANGED <<elast, cache, skipCache, svars, hsvars, rtvars, xvars>>

\* the calls in progress without the innermost one, the one before it at f
Popped(f) == [SubSeq(eframes, 1, Len(eframes) - 1) EXCEPT ![Len(eframes) - 1] = f]

\* the caller of the innermost call
Caller == eframes[Len(eframes) - 1]

\* taskRelease after describeTasks: its error, "task not found" without
\* tasks, or p.taskDefinitionRelease for the first task's definition
TaskReleaseTasks ==
  /\ Len(eframes) >= 2
  /\ Top.pc = "ret"
  /\ Caller.pc = "tasks"
  /\ eframes' =
       IF Top.err # NoError
       THEN Popped([Caller EXCEPT !.pc = "ret", !.err = Top.err])
       ELSE IF Len(Top.res[1].Tasks) < 1
       THEN Popped([Caller EXCEPT !.pc = "ret", !.err = <<"fmt", "task not found: ", TaskId>>])
       ELSE Append(Popped([Caller EXCEPT !.pc = "release"]),
                   Frame("taskDefinitionRelease", "get"))
  /\ UNCHANGED <<elast, cache, skipCache, svars, hsvars, rtvars, xvars>>

\* taskRelease after taskDefinitionRelease: its error, or on to cache.Set
TaskReleaseRelease ==
  /\ Len(eframes) >= 2
  /\ Top.pc = "ret"
  /\ Caller.pc = "release"
  /\ eframes' =
       IF Top.err # NoError
       THEN Popped([Caller EXCEPT !.pc = "ret", !.err = Top.err])
       ELSE Popped([Caller EXCEPT !.pc = "set", !.res = Top.res])
  /\ UNCHANGED <<elast, cache, skipCache, svars, hsvars, rtvars, xvars>>

\* taskDefinitionRelease after describeTaskDefinition: its error, an error
\* with fewer than zero container definitions, the runtime failure of
\* ContainerDefinitions[0] with none, which unwinds every call in progress,
\* an error without convox.release label, or on to cache.Set
TaskDefinitionReleaseLabel ==
  /\ Len(eframes) >= 2
  /\ Top.pc = "ret"
  /\ Caller.pc = "definition"
  /\ IF Top.err = NoError /\ ~(Top.res[1].ContainerDefinitions < 0)
          /\ Top.res[1].ContainerDefinitions = 0
     THEN /\ eframes' = <<>>
          /\ elast' = <<[Caller EXCEPT !.pc = "panic", !.err = IndexOutOfRange]>>
     ELSE /\ eframes' =
               IF Top.err # NoError
               THEN Popped([Caller EXCEPT !.pc = "ret", !.err = Top.err])
               ELSE IF Top.res[1].ContainerDefinitions < 0
               THEN Popped([Caller EXCEPT !.pc = "ret",
                              !.err = <<"fmt", "no container definitions for task definition: ",
                                        TaskDefinitionArn>>])
               ELSE IF Top.res[1].Label = <<>>
               THEN Popped([Caller EXCEPT !.pc = "ret",
                              !.err = <<"fmt", "no convox.release label for task definition: ",
                                        TaskDefinitionArn>>])
               ELSE Popped([Caller EXCEPT !.pc = "set", !.res = Top.res[1].Label])
          /\ UNCHANGED elast
  /\ UNCHANGED <<cache, skipCache, svars, hsvars, rtvars, xvars>>

\* the outermost call returns to the caller
EcsDone ==
  /\ Len(eframes) = 1
  /\ Top.pc = "ret"
  /\ elast' = <<Top>>
  /\ eframes' = <<>>
  /\ UNCHANGED <<cache, skipCache, svars, hsvars, rtvars, xvars>>

\* no call made yet, the stack live, the cache empty, SkipCache set or not
InitEcs ==
  /\ StacksIdle
  /\ stack = LiveStack
  /\ skipCache \in BOOLEAN
  /\ original = ""
  /\ human = <<>>
  /\ times = 0
  /\ interval = 0
  /\ firstOk = 1
  /\ rpc = "idle"
  /\ iter = 0
  /\ invocations = 0
  /\ ferr = NoError
  /\ sleeps = <<>>
  /\ jitterN = 0
  /\ rret = NoError
  /\ eframes = <<>>
  /\ elast = <<>>
  /\ CertIdle
  /\ NamesIdle
  /\ CompileIdle
  /\ OrderIdle
  /\ LogsIdle
  /\ LabelsIdle
  /\ KeysIdle

\* the caller has no call in progress
CallerIdle == eframes = <<>> /\ \A r \in Readers : pc[r] = "idle"

\* one caller making the describe and list calls and the release lookups,
\* one after the other
NextEcs ==
  \/ CallerIdle /\ \E op \in EcsCalls : EcsBegin(op)
  \/ EcsGet
  \/ EcsProviderCall
  \/ EcsSet
  \/ StackTemplate
  \/ TaskReleaseDescribeTasks
  \/ TaskDefinitionReleaseDescribe
  \/ TaskReleaseTasks
  \/ TaskReleaseRelease
  \/ TaskDefinitionReleaseLabel
  \/ EcsDone
  \/ CallerIdle /\ \E r \in Readers : ReaderCall(r)
  \/ \E r \in Readers : DescribeStacksGet(r)
  \/ \E r \in Readers : DescribeStacksCall(r)
  \/ \E r \in Readers : DescribeStacksSet(r)
  \/ \E r \in Readers : ReaderReturn(r)
  \/ CallerIdle /\ \E r \in Readers, op \in DescribeOps, logical \in LogicalIds :
       DescribeOpBegin(r, op, logical)
  \/ \E r \in Readers : DescribeOpGet(r)
  \/ \E r \in Readers : DescribeOpCall(r)
  \/ \E r \in Readers : DescribeOpSet(r)
  \/ CallerIdle /\ \E r \in Readers : ListStackResourcesBegin(r)
  \/ \E r \in Readers : ListStackResourcesGet(r)
  \/ \E r \in Readers : ListStackResourcesPage(r)
  \/ \E r \in Readers : ListStackResourcesSet(r)
  \/ \E r \in Readers : StackOpDone(r)

SpecEcs == InitEcs /\ [][NextEcs]_vars

(* ----------------------- waitForServerCertificate ---------------------- *)

\* durations are in seconds
serverCertificateWaitConfirmations == 3
serverCertificateWaitTick == 5
serverCertificateWaitTimeout == 120

\* the server certificates IAM may know
CertNames == {"cert-a", "cert-b"}

ErrNoSuchEntity == AwsErr("NoSuchEntity", "The Server Certificate cannot be found")
ErrTimeout == <<"fmt", "timeout", "">>

\* what time.Sleep adds to the duration asked for, and what a call of
\* GetServerCertificate takes
SleepOvershoots == {0, 1}
ProbeDurations == {0, 1}

\* the values of *iam.GetServerCertificateOutput: each pointer on the way to
\* the name is nil (<<>>) or set
GetServerCertificateOutputs ==
  {[ServerCertificate |-> <<>>],
   [ServerCertificate |-> <<[ServerCertificateMetadata |-> <<>>]>>]}
  \cup {[ServerCertificate |->
           <<[ServerCertificateMetadata |-> <<[ServerCertificateName |-> n]>>]>>] :
          n \in {<<>>} \cup {<<c>> : c \in CertNames}}

\* what GetServerCertificate may answer: an error, or an output
ProviderGetServerCertificate ==
  {[res |-> <<>>, err |-> ErrNoSuchEntity]}
  \cup {[res |-> <<o>>, err |-> NoError] : o \in GetServerCertificateOutputs}

\* the last serverCertificateWaitConfirmations answers, oldest first
Latest(answers) ==
  IF Len(answers) <= serverCertificateWaitConfirmations THEN answers
  ELSE SubSeq(answers, Len(answers) - serverCertificateWaitConfirmations + 1,
              Len(answers))

\* confirmations := 0; done := time.Now().Add(serverCertificateWaitTimeout)
WaitCall ==
  /\ wpc = "call"
  /\ confirmations' = 0
  /\ wdone' = wnow + serverCertificateWaitTimeout
  /\ wpc' = "check"
  /\ UNCHANGED <<wname, wnow, recent, probeAt, wret>>
  /\ UNCHANGED <<hsvars, rtvars, ecsvars, namevars, compvars, yvars, svars, cache, skipCache>>

\* the head of the loop: the two tests that return
WaitCheck ==
  /\ wpc = "check"
  /\ IF wnow > wdone
     THEN wpc' = "returned" /\ wret' = ErrTimeout
     ELSE IF confirmations >= serverCertificateWaitConfirmations
          THEN wpc' = "returned" /\ wret' = NoError
          ELSE wpc' = "sleep" /\ UNCHANGED wret
  /\ UNCHANGED <<wname, confirmations, wnow, wdone, recent, probeAt>>
  /\ UNCHANGED <<hsvars, rtvars, ecsvars, namevars, compvars, yvars, svars, cache, skipCache>>

\* time.Sleep(serverCertificateWaitTick)
WaitSleep ==
  /\ wpc = "sleep"
  /\ \E d \in SleepOvershoots : wnow' = wnow + serverCertificateWaitTick + d
  /\ wpc' = "probe"
  /\ UNCHANGED <<wname, confirmations, wdone, recent, probeAt, wret>>
  /\ UNCHANGED <<hsvars, rtvars, ecsvars, namevars, compvars, yvars, svars, cache, skipCache>>

\* the counter after a probe answered a, as the three tests of the loop set it
Counted(a, n, name) ==
  IF a.err # NoError THEN 0
  ELSE IF \/ a.res[1].ServerCertificate = <<>>
          \/ a.res[1].ServerCertificate[1].ServerCertificateMetadata = <<>>
          \/ a.res[1].ServerCertificate[1].ServerCertificateMetadata[1]
               .ServerCertificateName = <<>>
       THEN 0
  ELSE IF a.res[1].ServerCertificate[1].ServerCertificateMetadata[1]
            .ServerCertificateName[1] # name
       THEN 0
  ELSE n + 1

\* WaitProbe with a nil or another name in the answer leaving the counter as
\* it is
WaitProbeKeepsOnMismatch ==
  /\ wpc = "probe"
  /\ \E a \in ProviderGetServerCertificate, d \in ProbeDurations :
       /\ probeAt' = <<wnow>>
       /\ wnow' = wnow + d
       /\ recent' = Latest(Append(recent, a))
       /\ confirmations' =
            IF Counted(a, confirmations, wname) = 0 /\ a.err = NoError
            THEN confirmations
            ELSE Counted(a, confirmations, wname)
  /\ wpc' = "check"
  /\ UNCHANGED <<wname, wdone, wret>>
  /\ UNCHANGED <<hsvars, rtvars, ecsvars, namevars, compvars, yvars, svars, cache, skipCache>>

\* GetServerCertificate and the tests of its answer
WaitProbe ==
  /\ wpc = "probe"
  /\ \E a \in ProviderGetServerCertificate, d \in ProbeDurations :
       /\ probeAt' = <<wnow>>
       /\ wnow' = wnow + d
       /\ recent' = Latest(Append(recent, a))
       /\ confirmations' = Counted(a, confirmations, wname)
  /\ wpc' = "check"
  /\ UNCHANGED <<wname, wdone, wret>>
  /\ UNCHANGED <<hsvars, rtvars, ecsvars, namevars, compvars, yvars, svars, cache, skipCache>>

\* a call of waitForServerCertificate on a certificate name
InitCert ==
  /\ StacksIdle
  /\ stack = NoStack
  /\ skipCache = FALSE
  /\ HelpersIdle
  /\ wname \in CertNames
  /\ wpc = "call"
  /\ confirmations = 0
  /\ wnow = 0
  /\ wdone = 0
  /\ recent = <<>>
  /\ probeAt = <<>>
  /\ wret = NoError
  /\ NamesIdle
  /\ CompileIdle
  /\ OrderIdle
  /\ LogsIdle
  /\ LabelsIdle
  /\ KeysIdle

NextCert ==
  \/ WaitCall
  \/ WaitCheck
  \/ WaitSleep
  \/ WaitProbe

SpecCert == InitCert /\ [][NextCert]_vars

\* the loop is the only thing its goroutine does, and every call it makes
\* returns
SpecCertLive == SpecCert /\ WF_vars(NextCert)

(* --------------------------- CronJob.LongName -------------------------- *)

\* the bytes a rack, app, service or job name is written with
NameBytes == "abcdefghijklmnopqrstuvwxyz0123456789-"

\* the value of the one-byte string c
ByteOf(c) == CHOOSE n \in 1..Len(NameBytes) : SubSeq(NameBytes, n, n) = c

\* n bytes c
RECURSIVE Fill(_, _)
Fill(c, n) == IF n = 0 THEN "" ELSE c \o Fill(c, n - 1)

\* the values of RACK, and the names of apps, services and jobs: short ones,
\* long ones, ones of the same length, and ones with a hyphen inside
Racks == {"r", Fill("r", 10)}
AppNames == {"a", "a-b", Fill("a", 11), Fill("a", 12)}
ServiceNames == {"c", "b-c", Fill("s", 12)}
JobNames ==
  {"j", Fill("j", 11), Fill("k", 11), Fill("j", 28), Fill("j", 29), Fill("k", 29),
   Fill("j", 50)}

CronJobSet ==
  {[Name |-> j, Service |-> [Name |-> s], App |-> [Name |-> a]] :
     j \in JobNames, s \in ServiceNames, a \in AppNames}

NoCronJob == [Name |-> "", Service |-> [Name |-> ""], App |-> [Name |-> ""]]

\* CronJob.Process
Process(c) == c.Service.Name

RECURSIVE SumTo(_, _)
SumTo(f, n) == IF n = 0 THEN 0 ELSE f[n] + SumTo(f, n - 1)

\* sha256.Sum256 as far as LongName reads it, the first five bytes of the
\* digest: here a checksum over every byte of data and its position
Sum256(data) ==
  LET b == [n \in 1..Len(data) |-> ByteOf(SubSeq(data, n, n))]
  IN [k \in 1..5 |->
        (SumTo([n \in 1..Len(data) |-> b[n] * (((n * k) % 251) + 1)], Len(data))
           + 7 * k) % 256]

StdAlphabet == "ABCDEFGHIJKLMNOPQRSTUVWXYZ234567"

\* base32.StdEncoding.EncodeToString of five bytes: eight groups of five bits
EncodeToString(h) ==
  LET q == <<h[1] \div 8,
             (h[1] % 8) * 4 + h[2] \div 64,
             (h[2] \div 2) % 32,
             (h[2] % 2) * 16 + h[3] \div 16,
             (h[3] % 16) * 2 + h[4] \div 128,
             (h[4] \div 4) % 32,
             (h[4] % 4) * 8 + h[5] \div 32,
             h[5] % 32>>
      d(n) == SubSeq(StdAlphabet, q[n] + 1, q[n] + 1)
  IN d(1) \o d(2) \o d(3) \o d(4) \o d(5) \o d(6) \o d(7) \o d(8)

\* fmt.Sprintf("%s-%s-%s-%s", os.Getenv("RACK"), cr.App.Name, cr.Process(), cr.Name)
NaturalName(rack, c) ==
  rack \o "-" \o c.App.Name \o "-" \o Process(c) \o "-" \o c.Name

\* LongName hashing the prefix after it was cut
LongNameHashesCutPrefix(rack, c) ==
  LET prefix == NaturalName(rack, c)
      cut == IF Len(prefix) > 47 THEN SubSeq(prefix, 1, 47) ELSE prefix
  IN cut \o "-" \o SubSeq(EncodeToString(Sum256(cut)), 1, 7)

\* LongName cutting the prefix to what the suffix leaves of 64 bytes
LongNameCutsAtLimit(rack, c) ==
  LET prefix == NaturalName(rack, c)
      suffix == "-" \o SubSeq(EncodeToString(Sum256(prefix)), 1, 7)
  IN IF Len(prefix) > 64 - Len(suffix)
     THEN SubSeq(prefix, 1, 64 - Len(suffix)) \o suffix
     ELSE prefix \o suffix

\* CronJob.LongName
LongName(rack, c) ==
  LET prefix == NaturalName(rack, c)
      suffix == "-" \o SubSeq(EncodeToString(Sum256(prefix)), 1, 7)
  IN IF Len(prefix) > 55 - Len(suffix)
     THEN SubSeq(prefix, 1, 55 - Len(suffix)) \o suffix
     ELSE prefix \o suffix

\* a call of cr.LongName()
CronJobLongName ==
  /\ longName = <<>>
  /\ cr # NoCronJob
  /\ longName' = <<LongName(rackEnv, cr)>>
  /\ UNCHANGED <<rackEnv, cr, earlier>>
  /\ UNCHANGED <<hsvars, rtvars, ecsvars, certvars, compvars, yvars, svars, cache, skipCache>>

\* the next cron job is named, in this process or in another one
NextCronJob ==
  /\ longName # <<>>
  /\ earlier' = <<[rack |-> rackEnv, cr |-> cr, id |-> longName[1]]>>
  /\ rackEnv' \in Racks
  /\ cr' \in CronJobSet
  /\ longName' = <<>>
  /\ UNCHANGED <<hsvars, rtvars, ecsvars, certvars, compvars, yvars, svars, cache, skipCache>>

\* a cron job about to be named
InitNames ==
  /\ StacksIdle
  /\ stack = NoStack
  /\ skipCache = FALSE
  /\ HelpersIdle
  /\ CertIdle
  /\ rackEnv \in Racks
  /\ cr \in CronJobSet
  /\ longName = <<>>
  /\ earlier = <<>>
  /\ CompileIdle
  /\ OrderIdle
  /\ LogsIdle
  /\ LabelsIdle
  /\ KeysIdle

NextNames ==
  \/ CronJobLongName
  \/ NextCronJob

SpecNames == InitNames /\ [][NextNames]_vars

(* ------------------------- names in the template ----------------------- *)

LowerLetters == "abcdefghijklmnopqrstuvwxyz"
UpperLetters == "ABCDEFGHIJKLMNOPQRSTUVWXYZ"

\* strings.ToUpper of a string of one byte
ToUpper(c) ==
  IF \E n \in 1..Len(LowerLetters) : SubSeq(LowerLetters, n, n) = c
  THEN LET n == CHOOSE k \in 1..Len(LowerLetters) : SubSeq(LowerLetters, k, k) = c
       IN SubSeq(UpperLetters, n, n)
  ELSE c

\* strings.Index(s, c) for a string c of one byte
Index(s, c) ==
  IF \E n \in 1..Len(s) : SubSeq(s, n, n) = c
  THEN (CHOOSE n \in 1..Len(s) :
          /\ SubSeq(s, n, n) = c
          /\ \A k \in 1..(n - 1) : SubSeq(s, k, k) # c) - 1
  ELSE -1

\* strings.Replace(s, old, new, -1) for strings old and new of one byte
RECURSIVE Replace(_, _, _)
Replace(s, old, new) ==
  IF s = "" THEN ""
  ELSE (IF SubSeq(s, 1, 1) = old THEN new ELSE SubSeq(s, 1, 1))
         \o Replace(SubSeq(s, 2, Len(s)), old, new)

\* the loop of upperName: each dash is dropped and the byte after it put in
\* upper case
RECURSIVE UpperDashes(_)
UpperDashes(us) ==
  LET at == Index(us, "-")
  IN IF at = -1 THEN us
     ELSE UpperDashes(
            SubSeq(us, 1, at)
              \o (IF Len(us) > at + 1 THEN ToUpper(SubSeq(us, at + 2, at + 2)) ELSE "")
              \o (IF Len(us) > at + 2 THEN SubSeq(us, at + 3, Len(us)) ELSE ""))

upperName(name) ==
  IF name = "" THEN ""
  ELSE LET dashed == Replace(name, "_", "-")
       IN UpperDashes(ToUpper(SubSeq(dashed, 1, 1)) \o SubSeq(dashed, 2, Len(dashed)))

\* the template function upper
upper(s) == upperName(s)

(* --------------------- the application document ------------------------ *)

\* An expression of the document is a tuple headed by its kind:
\* <<"lit", s>> a string, <<"Ref", name>>, <<"Condition", name>>,
\* <<"Fn::Equals", e, f>>, <<"Fn::And", e, f>>, <<"Fn::Or", e, f>>,
\* <<"Fn::Not", e>>, <<"Fn::If", condition, e, f>>, <<"Fn::Select", n, e>>,
\* <<"Fn::GetAtt", resource, attribute>>, <<"Fn::ImportValue", name>> and
\* <<"Fn::SelectOfJoined", n, e>> for the Select of the Split of the Sub of
\* the Join in the service conditions.
Lit(s) == <<"lit", s>>
Ref(name) == <<"Ref", name>>
Condition(name) == <<"Condition", name>>
Equals(e, f) == <<"Fn::Equals", e, f>>
And(e, f) == <<"Fn::And", e, f>>
Or(e, f) == <<"Fn::Or", e, f>>
Not(e) == <<"Fn::Not", e>>
If(c, e, f) == <<"Fn::If", c, e, f>>
Select(n, e) == <<"Fn::Select", n, e>>
GetAtt(r, a) == <<"Fn::GetAtt", r, a>>
ImportValue(name) == <<"Fn::ImportValue", name>>

\* the bytes of the keys of a map, in ascending order
ByteOrder == "-0123456789ABCDEFGHIJKLMNOPQRSTUVWXYZ_abcdefghijklmnopqrstuvwxyz"

ByteRank(c) == CHOOSE n \in 1..Len(ByteOrder) : SubSeq(ByteOrder, n, n) = c

\* a < b for strings
RECURSIVE StringLess(_, _)
StringLess(a, b) ==
  IF b = "" THEN FALSE
  ELSE IF a = "" THEN TRUE
  ELSE IF SubSeq(a, 1, 1) = SubSeq(b, 1, 1)
       THEN StringLess(SubSeq(a, 2, Len(a)), SubSeq(b, 2, Len(b)))
  ELSE ByteRank(SubSeq(a, 1, 1)) < ByteRank(SubSeq(b, 1, 1))

\* the keys a range of text/template over a map visits, in its order: sorted
RECURSIVE SortedKeys(_)
SortedKeys(S) ==
  IF S = {} THEN <<>>
  ELSE LET m == CHOOSE x \in S : \A y \in S : ~StringLess(y, x)
       IN <<m>> \o SortedKeys(S \ {m})

\* strings.Join
RECURSIVE Join(_, _)
Join(a, sep) ==
  IF a = <<>> THEN ""
  ELSE IF Len(a) = 1 THEN a[1]
  ELSE a[1] \o sep \o Join(Tail(a), sep)


RECURSIVE Flatten(_)
\* the concatenation of the sequences of a, in their order
Flatten(a) == IF a = <<>> THEN <<>> ELSE a[1] \o Flatten(Tail(a))

\* Service.Domain: the first of the domains, or none
Domain(s) == IF s.Domains = <<>> THEN "" ELSE s.Domains[1]

\* the template function certificate: the reference of the first known
\* certificate whose domains include every requested domain, or ""
certificate(certs, domains) ==
  LET covers(n) == {domains[k] : k \in 1..Len(domains)} \subseteq certs[n].Domains
  IN IF \E n \in 1..Len(certs) : covers(n)
     THEN certs[CHOOSE n \in 1..Len(certs) :
                  covers(n) /\ \A k \in 1..(n - 1) : ~covers(k)].Arn
     ELSE ""

\* a resource of the document that is not a stack
Plain(key, type) ==
  [key |-> key, Type |-> type, Condition |-> <<>>, Parameters |-> <<>>,
   Domains |-> <<>>]

\* a stack of the document with its parameters
SubStack(key, parameters) ==
  [key |-> key, Type |-> "AWS::CloudFormation::Stack", Condition |-> <<>>,
   Parameters |-> parameters, Domains |-> <<>>]

Entry(key, value) == [key |-> key, value |-> value]

Parameter(key, type, default) == [key |-> key, Type |-> type, Default |-> default]

\* {{ define "balancer-outputs" }}
BalancerOutputs(c) == <<>>

\* balancer-resources emitting the certificate of every service with a port
BalancerResourcesAlwaysCertificate(c) ==
  LET balancer(s) ==
        IF s.Port.Port # 0
        THEN <<[key |-> "RecordSet" \o upper(s.Name) \o "Internal",
                Type |-> "AWS::Route53::RecordSet",
                Condition |-> <<"InternalDomains">>,
                Parameters |-> <<>>,
                Domains |-> <<>>]>>
             \o (IF TRUE
                 THEN <<[key |-> "Balancer" \o upper(s.Name) \o "Certificate",
                         Type |-> "AWS::CertificateManager::Certificate",
                         Condition |-> <<>>,
                         Parameters |-> <<Entry("DomainName", Lit(Domain(s)))>>,
                         Domains |-> s.Domains]>>
                 ELSE <<>>)
        ELSE <<>>
  IN Flatten([n \in 1..Len(c.Manifest.Services) |-> balancer(c.Manifest.Services[n])])

\* {{ define "balancer-resources" }}
BalancerResources(c) ==
  LET balancer(s) ==
        IF s.Port.Port # 0
        THEN <<[key |-> "RecordSet" \o upper(s.Name) \o "Internal",
                Type |-> "AWS::Route53::RecordSet",
                Condition |-> <<"InternalDomains">>,
                Parameters |-> <<>>,
                Domains |-> <<>>]>>
             \o (IF certificate(c.Certificates, s.Domains) = ""
                 THEN <<[key |-> "Balancer" \o upper(s.Name) \o "Certificate",
                         Type |-> "AWS::CertificateManager::Certificate",
                         Condition |-> <<>>,
                         Parameters |-> <<Entry("DomainName", Lit(Domain(s)))>>,
                         Domains |-> s.Domains]>>
                 ELSE <<>>)
        ELSE <<>>
  IN Flatten([n \in 1..Len(c.Manifest.Services) |-> balancer(c.Manifest.Services[n])])

\* {{ define "resource-resources" }}
ResourceResources(c) ==
  LET params(r) == c.ResourceParams[upper(r.Name)]
      keys(r) == SortedKeys(DOMAIN params(r))
      resource(r) ==
        <<SubStack("Resource" \o upper(r.Name),
            [n \in 1..Len(keys(r)) |-> Entry(keys(r)[n], Lit(params(r)[keys(r)[n]]))]
            \o <<Entry("AutoMinorVersionUpgrade", Ref("AutoMinorVersionUpgrade")),
                 Entry("Password",
                       If("BlankResourcePassword", Lit("AWS::StackId"),
                          Ref("ResourcePassword"))),
                 Entry("Rack", Ref("Rack"))>>)>>
  IN Flatten([n \in 1..Len(c.Manifest.Resources) |-> resource(c.Manifest.Resources[n])])

\* the Select of position n of the formation parameter with "," after it
SelectOfJoined(n, e) == <<"Fn::SelectOfJoined", n, e>>

\* {{ define "service-conditions" }}
ServiceConditions(m) ==
  LET conditions(s) ==
        <<Entry("Service" \o upper(s.Name) \o "Fargate",
                Or(Equals(SelectOfJoined(3, Ref(upper(s.Name) \o "Formation")),
                          Lit("FARGATE")),
                   Condition("FargateServicesBase"))),
          Entry("Service" \o upper(s.Name) \o "FargateSpot",
                Or(Equals(SelectOfJoined(3, Ref(upper(s.Name) \o "Formation")),
                          Lit("FARGATE_SPOT")),
                   Condition("FargateServicesSpot")))>>
  IN Flatten([n \in 1..Len(m.Services) |-> conditions(m.Services[n])])

\* {{ define "service-outputs" }}
ServiceOutputs(m) ==
  LET output(s) ==
        <<Entry("Service" \o upper(s.Name) \o "Service",
                GetAtt("Service" \o upper(s.Name), "Outputs.Service"))>>
  IN Flatten([n \in 1..Len(m.Services) |-> output(m.Services[n])])

\* service-params with the memory before the cpu
ServiceParamsMemoryFirst(m) ==
  LET param(s) ==
        <<Parameter(upper(s.Name) \o "Formation", "CommaDelimitedList",
            <<ToString(s.Scale.Count.Min) \o "," \o ToString(s.Scale.Memory)
                \o "," \o ToString(s.Scale.Cpu)>>)>>
  IN Flatten([n \in 1..Len(m.Services) |-> param(m.Services[n])])

\* {{ define "service-params" }}
ServiceParams(m) ==
  LET param(s) ==
        <<Parameter(upper(s.Name) \o "Formation", "CommaDelimitedList",
            <<ToString(s.Scale.Count.Min) \o "," \o ToString(s.Scale.Cpu)
                \o "," \o ToString(s.Scale.Memory)>>)>>
  IN Flatten([n \in 1..Len(m.Services) |-> param(m.Services[n])])

\* the resource URLs a service or a timer stack is given
ResourceUrls(names) ==
  [n \in 1..Len(names) |->
     Entry("Resource" \o upper(names[n]),
           GetAtt("Resource" \o upper(names[n]), "Outputs.Url"))]

\* {{ define "service-resources" }}
ServiceResources(c) ==
  LET service(s) ==
        <<SubStack("Service" \o upper(s.Name),
            <<Entry("Certificate",
                IF Domain(s) = ""
                THEN IF s.Internal
                     THEN ImportValue("${Rack}:RouterInternalCertificate")
                     ELSE ImportValue("${Rack}:RouterCertificate")
                ELSE IF certificate(c.Certificates, s.Domains) # ""
                     THEN Lit(certificate(c.Certificates, s.Domains))
                     ELSE Ref("Balancer" \o upper(s.Name) \o "Certificate")),
              Entry("CircuitBreaker", Ref("CircuitBreaker")),
              Entry("Count", Select(0, Ref(upper(s.Name) \o "Formation"))),
              Entry("Cpu", Select(1, Ref(upper(s.Name) \o "Formation"))),
              Entry("Fargate",
                If("Service" \o upper(s.Name) \o "Fargate", Lit("Yes"),
                   If("Service" \o upper(s.Name) \o "FargateSpot", Lit("Spot"),
                      Lit("No")))),
              Entry("LoadBalancerAlgorithm", Ref("LoadBalancerAlgorithm")),
              Entry("LoadBalancerSuccessCodes", Ref("LoadBalancerSuccessCodes")),
              Entry("LogGroup", Ref("LogGroup")),
              Entry("InternalDomains", Ref("InternalDomains")),
              Entry("Isolate", If("IsolateServices", Lit("Yes"), Lit("No"))),
              Entry("Memory", Select(2, Ref(upper(s.Name) \o "Formation"))),
              Entry("Private", Ref("Private")),
              Entry("Rack", Ref("Rack")),
              Entry("RackUrl", Ref("RackUrl")),
              Entry("RedirectHttps", Ref("RedirectHttps")),
              Entry("Registry", Ref("Registry"))>>
            \o ResourceUrls(s.Resources)
            \o <<Entry("Role", GetAtt("ServiceRole", "Arn")),
                 Entry("Settings", Ref("Settings")),
                 Entry("SlowStartDuration", Ref("SlowStartDuration")),
                 Entry("TaskTags", Ref("TaskTags"))>>)>>
  IN <<Plain("ServiceRole", "AWS::IAM::Role")>>
     \o Flatten([n \in 1..Len(c.Manifest.Services) |-> service(c.Manifest.Services[n])])

\* Manifest.Service: the service of that name
ServiceNamed(m, name) ==
  m.Services[CHOOSE n \in 1..Len(m.Services) : m.Services[n].Name = name]

\* the launcher with launchType 'EC2' whatever the capacity of the timers
TimerLauncherAlwaysEC2 ==
  [key |-> "TimerLauncher", Type |-> "AWS::Lambda::Function", Condition |-> <<>>,
   Parameters |-> <<>>, Domains |-> <<>>,
   Code |->
     <<Lit("  var params = {"),
       If("FargateTimersBase",
          Lit("  capacityProviderStrategy: [{capacityProvider: 'FARGATE'}],"),
          If("FargateTimersSpot",
             Lit("  capacityProviderStrategy: [{capacityProvider: 'FARGATE_SPOT'}],"),
             Lit(""))),
       Lit("    cluster: event.cluster,"),
       Lit("    taskDefinition: event.taskDefinition,"),
       Lit("    count: 1,"),
       Lit("    launchType: 'EC2',"),
       Lit("    networkConfiguration: {"),
       Lit("      awsvpcConfiguration: {"),
       If("FargateTimersEither",
          Lit("        assignPublicIp: 'ENABLED',"),
          Ref("AWS::NoValue"))>>]

\* the resource TimerLauncher, with the lines of its code that make the
\* parameters of the run-task call down to assignPublicIp
TimerLauncher ==
  [key |-> "TimerLauncher", Type |-> "AWS::Lambda::Function", Condition |-> <<>>,
   Parameters |-> <<>>, Domains |-> <<>>,
   Code |->
     <<Lit("  var params = {"),
       If("FargateTimersBase",
          Lit("  capacityProviderStrategy: [{capacityProvider: 'FARGATE'}],"),
          If("FargateTimersSpot",
             Lit("  capacityProviderStrategy: [{capacityProvider: 'FARGATE_SPOT'}],"),
             Lit(""))),
       Lit("    cluster: event.cluster,"),
       Lit("    taskDefinition: event.taskDefinition,"),
       Lit("    count: 1,"),
       If("EC2Timers", Lit("    launchType: 'EC2',"), Lit("")),
       Lit("    networkConfiguration: {"),
       Lit("      awsvpcConfiguration: {"),
       If("FargateTimersEither",
          Lit("        assignPublicIp: 'ENABLED',"),
          Ref("AWS::NoValue"))>>]

\* {{ define "timer-resources" }}
TimerResources(c) ==
  LET timer(t) ==
        <<SubStack("Timer" \o upper(t.Name),
            <<Entry("Cpu", Select(1, Ref(upper(t.Service) \o "Formation"))),
              Entry("ExecutionRole", GetAtt("ExecutionRole", "Arn")),
              Entry("Fargate",
                If("FargateTimersBase", Lit("Yes"),
                   If("FargateTimersSpot", Lit("Spot"), Lit("No")))),
              Entry("Launcher", GetAtt("TimerLauncher", "Arn")),
              Entry("LogGroup", Ref("LogGroup")),
              Entry("Memory", Select(2, Ref(upper(t.Service) \o "Formation"))),
              Entry("Rack", Ref("Rack")),
              Entry("RackUrl", Ref("RackUrl")),
              Entry("Registry", Ref("Registry"))>>
            \o ResourceUrls(ServiceNamed(c.Manifest, t.Service).Resources)
            \o <<Entry("Role", GetAtt("TimerRole", "Arn")),
                 Entry("ServiceRole", GetAtt("ServiceRole", "Arn")),
                 Entry("Settings", Ref("Settings"))>>)>>
  IN (IF c.Manifest.Timers # <<>>
      THEN <<TimerLauncher,
             Plain("TimerRole", "AWS::IAM::Role")>>
      ELSE <<>>)
     \o Flatten([n \in 1..Len(c.Manifest.Timers) |-> timer(c.Manifest.Timers[n])])

\* {{ define "state" }}
State ==
  <<Plain("Settings", "AWS::S3::Bucket"),
    Plain("SettingsPolicy", "AWS::S3::BucketPolicy")>>

\* the condition IsolateServices without the capacity mode
IsolateServicesOfIsolateOnly == Condition("Isolate")

\* the condition IsolateServices
IsolateServicesCondition ==
  Or(Condition("FargateServicesEither"), Condition("Isolate"))

\* the conditions of the root document after the service conditions
RootConditions ==
  <<Entry("BlankIamPolicy", Equals(Ref("IamPolicy"), Lit(""))),
    Entry("BlankLogBucket", Equals(Ref("LogBucket"), Lit(""))),
    Entry("BlankLogRetention", Equals(Ref("LogRetention"), Lit(""))),
    Entry("BlankResourcePassword", Equals(Ref("ResourcePassword"), Lit(""))),
    Entry("CircuitBreaker", Equals(Ref("CircuitBreaker"), Lit("Yes"))),
    Entry("EC2Services", Not(Condition("FargateServicesEither"))),
    Entry("EC2Timers", Not(Condition("FargateTimersEither"))),
    Entry("FargateServicesEither",
          Or(Condition("FargateServicesBase"), Condition("FargateServicesSpot"))),
    Entry("FargateServicesBase", Equals(Ref("FargateServices"), Lit("Yes"))),
    Entry("FargateServicesSpot", Equals(Ref("FargateServices"), Lit("Spot"))),
    Entry("FargateTimersEither",
          Or(Condition("FargateTimersBase"), Condition("FargateTimersSpot"))),
    Entry("FargateTimersBase", Equals(Ref("FargateTimers"), Lit("Yes"))),
    Entry("FargateTimersSpot", Equals(Ref("FargateTimers"), Lit("Spot"))),
    Entry("InternalDomains", Equals(Ref("InternalDomains"), Lit("Yes"))),
    Entry("Isolate",
          And(Condition("Private"), Equals(Ref("Isolate"), Lit("Yes")))),
    Entry("IsolateServices", IsolateServicesCondition),
    Entry("Private", Equals(Ref("Private"), Lit("Yes"))),
    Entry("RackUrl", Equals(Ref("RackUrl"), Lit("Yes")))>>

\* the outputs of the root document after the service outputs
RootOutputs(c) ==
  <<Entry("Agents", Lit(Join(c.Manifest.Agents, ","))),
    Entry("FargateServices", If("FargateServicesBase", Lit("Yes"), Lit("No"))),
    Entry("FargateSpotServices", If("FargateServicesSpot", Lit("Yes"), Lit("No"))),
    Entry("LogGroup", Ref("LogGroup")),
    Entry("Release", Lit(c.Release.Id)),
    Entry("Services",
          Lit(Join([n \in 1..Len(c.Manifest.Services) |-> c.Manifest.Services[n].Name],
                   ","))),
    Entry("ServiceRole", GetAtt("ServiceRole", "Arn"))>>

\* the parameters of the root document after the service parameters
RootParameters ==
  <<Parameter("AutoMinorVersionUpgrade", "String", <<"true">>),
    Parameter("CircuitBreaker", "String", <<"No">>),
    Parameter("FargateServices", "String", <<"No">>),
    Parameter("FargateTimers", "String", <<"No">>),
    Parameter("IamPolicy", "String", <<"">>),
    Parameter("InternalDomains", "String", <<"Yes">>),
    Parameter("Isolate", "String", <<"No">>),
    Parameter("LoadBalancerAlgorithm", "String", <<"round_robin">>),
    Parameter("LoadBalancerSuccessCodes", "String", <<"200-399,401">>),
    Parameter("LogBucket", "String", <<"">>),
    Parameter("LogRetention", "String", <<"7">>),
    Parameter("Private", "String", <<"No">>),
    Parameter("Rack", "String", <<>>),
    Parameter("RackUrl", "String", <<"No">>),
    Parameter("RedirectHttps", "String", <<"Yes">>),
    Parameter("ResourcePassword", "String", <<"">>),
    Parameter("SlowStartDuration", "String", <<"0">>),
    Parameter("TaskTags", "String", <<"No">>)>>

\* the resources of the root document after the state
RootResources ==
  <<Plain("ExecutionRole", "AWS::IAM::Role"),
    Plain("LogGroup", "AWS::Logs::LogGroup"),
    Plain("Registry", "AWS::ECR::Repository")>>

\* the section Conditions with the service conditions last
ConditionsServicesLast(c) == RootConditions \o ServiceConditions(c.Manifest)

\* the section Conditions
Conditions(c) == ServiceConditions(c.Manifest) \o RootConditions

\* the section Outputs
Outputs(c) == BalancerOutputs(c) \o ServiceOutputs(c.Manifest) \o RootOutputs(c)

\* the section Parameters
Parameters(c) == ServiceParams(c.Manifest) \o RootParameters

\* the section Resources
Resources(c) ==
  BalancerResources(c) \o ResourceResources(c) \o ServiceResources(c)
    \o TimerResources(c) \o State \o RootResources

\* the root document of app.json.tmpl executed on the context c: its sections
\* in the order written, each a list of entries in the order written
AppTemplate(c) ==
  [sections |-> <<"AWSTemplateFormatVersion", "Conditions", "Outputs",
                  "Parameters", "Resources">>,
   AWSTemplateFormatVersion |-> "2010-09-09",
   Conditions |-> Conditions(c),
   Outputs |-> Outputs(c),
   Parameters |-> Parameters(c),
   Resources |-> Resources(c)]

(* ------------------------------ appCronJobs ---------------------------- *)

\* strings.Split(s, sep) for a string sep of one byte
RECURSIVE Split(_, _)
Split(s, sep) ==
  LET at == Index(s, sep)
  IN IF at = -1 THEN <<s>>
     ELSE <<SubSeq(s, 1, at)>> \o Split(SubSeq(s, at + 2, Len(s)), sep)

\* strings.Fields(s) for a string whose only white space is the space
Fields(s) == SelectSeq(Split(s, " "), LAMBDA f : f # "")

\* strings.HasPrefix
HasPrefix(s, prefix) ==
  Len(s) >= Len(prefix) /\ SubSeq(s, 1, Len(prefix)) = prefix

\* Service.LabelsByPrefix: the labels whose key begins with prefix
LabelsByPrefix(entry, prefix) ==
  [key \in {l \in DOMAIN entry.Labels : HasPrefix(l, prefix)} |-> entry.Labels[key]]

\* the runtime failure of the slice expression tokens[0:5] on n < 5 tokens;
\* strings.Fields makes its result with the capacity n
SliceOutOfRange(n) ==
  [panic |-> "slice bounds out of range [:5] with capacity " \o ToString(n)]

NewCronJobFromLabel(key, value) ==
  LET keySlice == Split(key, ".")
      tokens == Fields(value)
  IN IF Len(tokens) < 5
       THEN SliceOutOfRange(Len(tokens))
       ELSE [Name |-> keySlice[Len(keySlice)],
             Schedule |-> "cron(" \o Join(SubSeq(tokens, 1, 5), " ") \o " *)",
             Command |-> Join(SubSeq(tokens, 6, Len(tokens)), " ")]

\* the runtime failures a call appCronJobs(a, m) may end with: that of the
\* first cron label the ranges yield whose value has fewer than five fields
CronPanics(m) ==
  LET labels(s) == LabelsByPrefix(m.Services[s], "convox.cron")
      short == {p \in UNION {{<<s, l>> : l \in DOMAIN labels(s)} : s \in DOMAIN m.Services} :
                  Len(Fields(labels(p[1])[p[2]])) < 5}
  IN {NewCronJobFromLabel(p[2], labels(p[1])[p[2]]) : p \in short}

\* what appCronJobs(a, m) may return: the cron jobs of the services in the
\* order the range over the map m.Services yields them, and for each service
\* in the order the range over the map labels yields them; or the runtime
\* failure it ends with
appCronJobs(a, m) ==
  LET labels(s) == LabelsByPrefix(m.Services[s], "convox.cron")
      jobs(s, lo) ==
        [n \in 1..Len(lo) |->
           [Name |-> NewCronJobFromLabel(lo[n], labels(s)[lo[n]]).Name,
            Schedule |-> NewCronJobFromLabel(lo[n], labels(s)[lo[n]]).Schedule,
            Command |-> NewCronJobFromLabel(lo[n], labels(s)[lo[n]]).Command,
            Service |-> [Name |-> m.Services[s].Name],
            App |-> [Name |-> a.Name]]]
      labelOrders ==
        {f \in [DOMAIN m.Services ->
                  UNION {Orders(DOMAIN labels(s)) : s \in DOMAIN m.Services}] :
           \A s \in DOMAIN m.Services : f[s] \in Orders(DOMAIN labels(s))}
  IN IF CronPanics(m) # {}
       THEN CronPanics(m)
       ELSE {Flatten([n \in 1..Len(so) |-> jobs(so[n], lo[so[n]])]) :
               so \in Orders(DOMAIN m.Services), lo \in labelOrders}

(* ---------------------- what the compiler is given --------------------- *)

App == [Name |-> "app1"]

Domains == {"a.example.com", "b.example.com", "c.example.com"}

\* the domain lists of a service
DomainLists ==
  {<<>>, <<"a.example.com">>, <<"c.example.com">>,
   <<"a.example.com", "b.example.com">>, <<"b.example.com", "c.example.com">>}

\* the scales of the service web, and the scale of the other service
Scales ==
  {[Count |-> [Min |-> 1], Cpu |-> 256, Memory |-> 512],
   [Count |-> [Min |-> 0], Cpu |-> 512, Memory |-> 1024]}

OtherScale == [Count |-> [Min |-> 3], Cpu |-> 64, Memory |-> 128]

Ports == {0, 3000}

\* the manifests: one service; two services, a resource and a timer; two
\* services, two resources and a timer of each service
Manifests ==
  UNION {
    {[Services |->
        <<[Name |-> "web", Port |-> [Port |-> p], Domains |-> d,
           Internal |-> FALSE, Scale |-> sc, Resources |-> <<>>]>>,
      Resources |-> <<>>,
      Timers |-> <<>>,
      Agents |-> <<>>],
     [Services |->
        <<[Name |-> "api", Port |-> [Port |-> 0], Domains |-> <<>>,
           Internal |-> TRUE, Scale |-> OtherScale, Resources |-> <<>>],
          [Name |-> "web", Port |-> [Port |-> p], Domains |-> d,
           Internal |-> FALSE, Scale |-> sc, Resources |-> <<"db">>]>>,
      Resources |-> <<[Name |-> "db"]>>,
      Timers |-> <<[Name |-> "cleanup", Service |-> "web"]>>,
      Agents |-> <<"api">>],
     [Services |->
        <<[Name |-> "web", Port |-> [Port |-> p], Domains |-> d,
           Internal |-> TRUE, Scale |-> sc, Resources |-> <<"cache", "db">>],
          [Name |-> "worker-jobs", Port |-> [Port |-> 0], Domains |-> <<>>,
           Internal |-> FALSE, Scale |-> OtherScale, Resources |-> <<"db">>]>>,
      Resources |-> <<[Name |-> "cache"], [Name |-> "db"]>>,
      Timers |-> <<[Name |-> "cleanup", Service |-> "web"],
                   [Name |-> "report", Service |-> "worker-jobs"]>>,
      Agents |-> <<>>]} :
    p \in Ports, d \in DomainLists, sc \in Scales}

\* the known certificates
CertificateLists ==
  {<<>>,
   <<[Domains |-> {"a.example.com", "b.example.com"}, Arn |-> "arn:cert/ab"]>>,
   <<[Domains |-> {"c.example.com"}, Arn |-> "arn:cert/c"],
     [Domains |-> {"a.example.com", "b.example.com"}, Arn |-> "arn:cert/ab"]>>}

\* the parameters of the resources, by the upper name of the resource
ResourceParams ==
  MapFrom({<<"Db", MapFrom({<<"Storage", "20">>, <<"Class", "db.t3.micro">>,
                            <<"Encrypted", "true">>})>>,
           <<"Cache", MapFrom({<<"Nodes", "1">>})>>})

\* the data the template is executed on
Contexts ==
  {[App |-> App.Name, Topic |-> CloudformationTopic, Manifest |-> m,
    Certificates |-> cs, Release |-> [Id |-> "RABCDEFGHI"],
    ResourceParams |-> ResourceParams] :
     m \in Manifests, cs \in CertificateLists}

\* the values the stack is given for the toggles, and as Capacity the fourth
\* element its parameter WebFormation is given ("" when it is given three):
\* every combination of Isolate, Private and FargateServices; Capacity with
\* every FargateServices; FargateTimers with the other values at No
ToggleSets ==
  {t \in [Isolate : {"Yes", "No"}, Private : {"Yes", "No"},
          FargateServices : {"Yes", "Spot", "No"},
          FargateTimers : {"Yes", "Spot", "No"},
          Capacity : {"", "FARGATE", "FARGATE_SPOT"}] :
     \/ t.FargateTimers = "No" /\ t.Capacity = ""
     \/ t.FargateTimers = "No" /\ t.Isolate = "No" /\ t.Private = "No"
     \/ /\ t.Isolate = "No"
        /\ t.Private = "No"
        /\ t.FargateServices = "No"
        /\ t.Capacity = ""}

\* the manifests of the first generation: no cron label, two cron labels of
\* one service, and the same cron label on two services
Manifests1 ==
  {[Services |-> MapFrom({<<"web", [Name |-> "web",
       Labels |-> MapFrom({<<"convox.port.443.protocol", "tls">>})]>>})],
   [Services |-> MapFrom({<<"web", [Name |-> "web",
       Labels |-> MapFrom({<<"convox.cron.cleanup", "0 3 * * ? bin/cleanup">>,
                           <<"convox.cron.report", "30 * * * ? bin/report now">>,
                           <<"convox.port.443.protocol", "tls">>})]>>})],
   [Services |-> MapFrom({
       <<"web", [Name |-> "web",
          Labels |-> MapFrom({<<"convox.cron.cleanup", "0 3 * * ? bin/cleanup">>})]>>,
       <<"worker", [Name |-> "worker",
          Labels |-> MapFrom({<<"convox.cron.cleanup", "0 4 * * ? bin/cleanup all">>})]>>})]}

(* ------------------------------ compiling ------------------------------ *)

\* the template executed on the context
Compile ==
  /\ context.App # ""
  /\ doc = <<>>
  /\ doc' = <<AppTemplate(context)>>
  /\ UNCHANGED <<toggles, context, m1, cronjobs, before>>
  /\ UNCHANGED <<hsvars, rtvars, ecsvars, certvars, namevars, yvars, svars, cache, skipCache>>

\* the call appCronJobs(a, m), made once the template was executed
AppCronJobs ==
  /\ doc # <<>>
  /\ cronjobs = <<>>
  /\ \E jobs \in appCronJobs(App, m1) : cronjobs' = <<jobs>>
  /\ UNCHANGED <<toggles, context, m1, doc, before>>
  /\ UNCHANGED <<hsvars, rtvars, ecsvars, certvars, namevars, yvars, svars, cache, skipCache>>

\* the same manifest is compiled once more
CompileAgain ==
  /\ doc # <<>>
  /\ cronjobs # <<>>
  /\ before = <<>>
  /\ before' = <<[doc |-> doc[1], cronjobs |-> cronjobs[1]]>>
  /\ doc' = <<>>
  /\ cronjobs' = <<>>
  /\ UNCHANGED <<toggles, context, m1>>
  /\ UNCHANGED <<hsvars, rtvars, ecsvars, certvars, namevars, yvars, svars, cache, skipCache>>

\* a manifest about to be compiled for a stack with some values of the toggles
InitCompile ==
  /\ StacksIdle
  /\ stack = NoStack
  /\ skipCache = FALSE
  /\ HelpersIdle
  /\ CertIdle
  /\ NamesIdle
  /\ toggles \in ToggleSets
  /\ context \in Contexts
  /\ m1 \in Manifests1
  /\ doc = <<>>
  /\ cronjobs = <<>>
  /\ before = <<>>
  /\ OrderIdle
  /\ LogsIdle
  /\ LabelsIdle
  /\ KeysIdle

NextCompile ==
  \/ Compile
  \/ AppCronJobs
  \/ CompileAgain

SpecCompile == InitCompile /\ [][NextCompile]_vars

(* --------------------------- Manifest.runOrder ------------------------- *)

\* the names a service of the manifest may have or link to
LinkNames == {"a", "b", "c"}

\* the service sets of the manifests: none, one, two and three services
ServiceSets == {{}, {"a"}, {"a", "b"}, {"a", "b", "c"}}

\* a list of links for every set of names
LinkLists == {CHOOSE o \in Orders(S) : TRUE : S \in SUBSET LinkNames}

\* the manifests runOrder is called on
OrderManifests ==
  UNION {{[Services |-> [n \in S |-> [Name |-> n, Links |-> l[n]]]] :
            l \in [S -> LinkLists]} : S \in ServiceSets}

\* runOrder is called: the range over the map m.Services appends the
\* services in some order
RunOrderCall ==
  /\ opc = "call"
  /\ \E o \in Orders(DOMAIN om.Services) :
       services' = [n \in 1..Len(o) |-> om.Services[o[n]]]
  /\ oi' = 1
  /\ oj' = 2
  /\ opc' = "sort"
  /\ UNCHANGED om
  /\ UNCHANGED <<hsvars, rtvars, ecsvars, certvars, namevars, compvars, logvars,
                 labelvars, keyvars, svars, cache, skipCache>>

\* services with the elements at x and y exchanged
Swapped(list, x, y) == [list EXCEPT ![x] = list[y], ![y] = list[x]]

\* one pass of the inner loop of runOrder: i and j are exchanged when the
\* name of j is among the links of i
RunOrderCompare ==
  /\ opc = "sort"
  /\ oi <= Len(services) - 1
  /\ IF \E n \in 1..Len(services[oi].Links) :
          services[oi].Links[n] = services[oj].Name
       THEN services' = Swapped(services, oi, oj)
       ELSE UNCHANGED services
  /\ IF oj < Len(services)
       THEN oj' = oj + 1 /\ UNCHANGED oi
       ELSE oi' = oi + 1 /\ oj' = oi + 2
  /\ UNCHANGED <<om, opc>>
  /\ UNCHANGED <<hsvars, rtvars, ecsvars, certvars, namevars, compvars, logvars,
                 labelvars, keyvars, svars, cache, skipCache>>

\* the outer loop is over: runOrder returns services
RunOrderReturn ==
  /\ opc = "sort"
  /\ oi > Len(services) - 1
  /\ opc' = "returned"
  /\ UNCHANGED <<om, services, oi, oj>>
  /\ UNCHANGED <<hsvars, rtvars, ecsvars, certvars, namevars, compvars, logvars,
                 labelvars, keyvars, svars, cache, skipCache>>

InitOrder ==
  /\ StacksIdle
  /\ stack = NoStack
  /\ skipCache = FALSE
  /\ HelpersIdle
  /\ CertIdle
  /\ NamesIdle
  /\ CompileIdle
  /\ LogsIdle
  /\ LabelsIdle
  /\ KeysIdle
  /\ om \in OrderManifests
  /\ services = <<>>
  /\ oi = 0
  /\ oj = 0
  /\ opc = "call"

NextOrder ==
  \/ RunOrderCall
  \/ RunOrderCompare
  \/ RunOrderReturn

SpecOrder == InitOrder /\ [][NextOrder]_vars

(* ------------------- describe calls with several inputs ----------------- *)

\* the wrappers whose input has fields besides the one the cache is keyed on
KeyedWrappers ==
  {"describeServices", "describeStackEvents", "describeStackResources",
   "describeStacks"}

\* the inputs the wrappers are called with
KeyedInputs(op) ==
  CASE op = "describeServices" ->
         [Cluster : {"cluster1", "cluster2"}, Services : {<<"web">>, <<"api">>}]
    [] op = "describeStackEvents" ->
         [StackName : {StackName}, NextToken : {Nil, "page2"}]
    [] op = "describeStackResources" ->
         [StackName : {StackName}, LogicalResourceId : {Nil, "Web"},
          PhysicalResourceId : {Nil, "i-1"}]
    [] op = "describeStacks" ->
         [StackName : {StackName}, NextToken : {Nil, "page2"}]

\* the key a wrapper gives the cache for its input
KeyedOn(op, input) ==
  IF op = "describeServices" THEN input.Services ELSE KeyOf(input.StackName)

\* the provider call behind a wrapper: what the input asks for, or an error
ProviderDescribe(op, input) ==
  {[out |-> <<[Of |-> input]>>, err |-> NoError],
   [out |-> <<>>, err |-> ErrThrottling]}

\* a caller calls a wrapper with an input
KeyedBegin(op, input) ==
  /\ kcall = <<>>
  /\ kcall' = <<[op |-> op, input |-> input, pc |-> "get", out |-> <<>>,
                 err |-> NoError, hit |-> FALSE]>>
  /\ klast' = <<>>
  /\ UNCHANGED <<hsvars, rtvars, ecsvars, certvars, namevars, compvars, ordervars,
                 logvars, labelvars, svars, cache, skipCache>>

\* cache.Get(op, key) and the return on a hit
KeyedGet ==
  /\ kcall # <<>>
  /\ kcall[1].pc = "get"
  /\ LET hit == cacheGet(cache, kcall[1].op, KeyedOn(kcall[1].op, kcall[1].input))
     IN kcall' = IF hit # <<>>
                 THEN <<[kcall[1] EXCEPT !.pc = "ret", !.out = hit, !.hit = TRUE]>>
                 ELSE <<[kcall[1] EXCEPT !.pc = "call"]>>
  /\ UNCHANGED klast
  /\ UNCHANGED <<hsvars, rtvars, ecsvars, certvars, namevars, compvars, ordervars,
                 logvars, labelvars, svars, cache, skipCache>>

\* the provider call and the return on an error or when SkipCache is set
KeyedCall ==
  /\ kcall # <<>>
  /\ kcall[1].pc = "call"
  /\ \E o \in ProviderDescribe(kcall[1].op, kcall[1].input) :
       kcall' = <<[kcall[1] EXCEPT
                     !.pc = IF o.err # NoError \/ skipCache THEN "ret" ELSE "set",
                     !.out = o.out, !.err = o.err]>>
  /\ UNCHANGED klast
  /\ UNCHANGED <<hsvars, rtvars, ecsvars, certvars, namevars, compvars, ordervars,
                 logvars, labelvars, svars, cache, skipCache>>

\* cache.Set(op, key, res, 5*time.Second) and the return of res
KeyedSet ==
  /\ kcall # <<>>
  /\ kcall[1].pc = "set"
  /\ cache' = cacheSet(cache, kcall[1].op, KeyedOn(kcall[1].op, kcall[1].input),
                       kcall[1].out[1], 5, 0)
  /\ kcall' = <<[kcall[1] EXCEPT !.pc = "ret"]>>
  /\ UNCHANGED klast
  /\ UNCHANGED <<hsvars, rtvars, ecsvars, certvars, namevars, compvars, ordervars,
                 logvars, labelvars, svars, skipCache>>

\* the wrapper returns to the caller
KeyedDone ==
  /\ kcall # <<>>
  /\ kcall[1].pc = "ret"
  /\ klast' = kcall
  /\ kcall' = <<>>
  /\ UNCHANGED <<hsvars, rtvars, ecsvars, certvars, namevars, compvars, ordervars,
                 logvars, labelvars, svars, cache, skipCache>>

\* no call made yet, the cache empty, SkipCache set or not
InitKeys ==
  /\ StacksIdle
  /\ stack = LiveStack
  /\ skipCache \in BOOLEAN
  /\ HelpersIdle
  /\ CertIdle
  /\ NamesIdle
  /\ CompileIdle
  /\ OrderIdle
  /\ LogsIdle
  /\ LabelsIdle
  /\ kcall = <<>>
  /\ klast = <<>>

\* one caller making the calls one after the other, within the five seconds
\* an entry lives
NextKeys ==
  \/ \E op \in KeyedWrappers : \E input \in KeyedInputs(op) : KeyedBegin(op, input)
  \/ KeyedGet
  \/ KeyedCall
  \/ KeyedSet
  \/ KeyedDone

SpecKeys == InitKeys /\ [][NextKeys]_vars

(* ----------------------------- putLogEvents ---------------------------- *)

\* the sequence tokens of the log service
LogTokens == {"t1", "t2"}

ErrResourceNotFound == AwsErr("ResourceNotFoundException", "The specified log stream does not exist.")
ErrInvalidSequenceToken == AwsErr("InvalidSequenceTokenException", "The given sequenceToken is invalid.")
ErrConnection == <<"net", "connection reset by peer">>
ErrCouldNotDescribe == <<"fmt", "could not describe log stream: %s/%s\n", "group/stream">>

\* awsError(err): the code of an awserr.Error, "" for any other error
awsError(err) == IF Len(err) > 0 /\ err[1] = "aws" THEN err[2] ELSE ""

\* the answers of cloudwatchlogs PutLogEvents to input
ProviderPutLogEvents(input) ==
  {[next |-> t, err |-> NoError] : t \in LogTokens}
    \cup {[next |-> Nil, err |-> e] :
            e \in {ErrResourceNotFound, ErrInvalidSequenceToken, ErrThrottling, ErrConnection}}

\* the answers of cloudwatchlogs CreateLogStream
ProviderCreateLogStream == {NoError, ErrThrottling}

\* the answers of cloudwatchlogs DescribeLogStreams: the UploadSequenceToken
\* of each stream whose name begins with the prefix, or an error
ProviderDescribeLogStreams ==
  {[streams |-> s, err |-> NoError] :
     s \in {<<>>, <<Nil>>, <<"t1">>, <<"t2">>, <<"t1", "t2">>}}
    \cup {[streams |-> <<>>, err |-> ErrThrottling]}

\* the attempts are used up
ExhaustedLater(n) == n > 4

Exhausted(n) == n > 3

\* return token, err
LogReturn(token, err) ==
  /\ lret' = <<[token |-> token, err |-> err]>>
  /\ lpc' = "done"

\* putLogEvents(req) is called
PutLogEventsCall(token) ==
  /\ lpc \in {"idle", "done"}
  /\ lreq' = [SequenceToken |-> token]
  /\ attempts' = 0
  /\ lerr' = NoError
  /\ lcalls' = <<>>
  /\ lret' = <<>>
  /\ lpc' = "put"
  /\ UNCHANGED <<hsvars, rtvars, ecsvars, certvars, namevars, compvars, ordervars,
                 labelvars, keyvars, svars, cache, skipCache>>

\* one PutLogEvents call, the count of the failure and the choice of what
\* follows it
PutLogEvents ==
  /\ lpc = "put"
  /\ \E out \in ProviderPutLogEvents(lreq) :
       /\ lcalls' = Append(lcalls, [op |-> "PutLogEvents", token |-> lreq.SequenceToken,
                                    streams |-> <<>>, next |-> out.next, err |-> out.err])
       /\ lerr' = out.err
       /\ IF out.err = NoError
            THEN attempts' = attempts /\ LogReturn(out.next, NoError)
            ELSE /\ attempts' = attempts + 1
                 /\ IF Exhausted(attempts')
                      THEN LogReturn("", out.err)
                      ELSE IF awsError(out.err) = "ResourceNotFoundException"
                        THEN lpc' = "create" /\ lret' = lret
                      ELSE IF awsError(out.err) = "InvalidSequenceTokenException"
                        THEN lpc' = "describe" /\ lret' = lret
                      ELSE LogReturn("", out.err)
  /\ UNCHANGED <<lreq, hsvars, rtvars, ecsvars, certvars, namevars, compvars, ordervars,
                 labelvars, keyvars, svars, cache, skipCache>>

\* the log stream is created after a ResourceNotFoundException
CreateLogStream ==
  /\ lpc = "create"
  /\ \E err \in ProviderCreateLogStream :
       /\ lcalls' = Append(lcalls, [op |-> "CreateLogStream", token |-> lreq.SequenceToken,
                                    streams |-> <<>>, next |-> Nil, err |-> err])
       /\ IF err # NoError
            THEN LogReturn("", err)
            ELSE lpc' = "put" /\ lret' = lret
  /\ UNCHANGED <<lreq, attempts, lerr, hsvars, rtvars, ecsvars, certvars, namevars,
                 compvars, ordervars, labelvars, keyvars, svars, cache, skipCache>>

\* the sequence token is read again after an InvalidSequenceTokenException
DescribeLogStreams ==
  /\ lpc = "describe"
  /\ \E sres \in ProviderDescribeLogStreams :
       /\ lcalls' = Append(lcalls, [op |-> "DescribeLogStreams", token |-> lreq.SequenceToken,
                                    streams |-> sres.streams, next |-> Nil, err |-> sres.err])
       /\ IF sres.err # NoError
            THEN LogReturn("", sres.err) /\ lreq' = lreq
            ELSE IF Len(sres.streams) # 1
              THEN LogReturn("", ErrCouldNotDescribe) /\ lreq' = lreq
              ELSE /\ lreq' = [lreq EXCEPT !.SequenceToken = sres.streams[1]]
                   /\ lpc' = "put"
                   /\ lret' = lret
  /\ UNCHANGED <<attempts, lerr, hsvars, rtvars, ecsvars, certvars, namevars,
                 compvars, ordervars, labelvars, keyvars, svars, cache, skipCache>>

\* no call of putLogEvents made yet
InitLogs ==
  /\ StacksIdle
  /\ stack = LiveStack
  /\ skipCache = FALSE
  /\ HelpersIdle
  /\ CertIdle
  /\ NamesIdle
  /\ CompileIdle
  /\ OrderIdle
  /\ LogsIdle
  /\ LabelsIdle
  /\ KeysIdle

NextLogs ==
  \/ \E token \in LogTokens \cup {Nil} : PutLogEventsCall(token)
  \/ PutLogEvents
  \/ CreateLogStream
  \/ DescribeLogStreams

SpecLogs == InitLogs /\ [][NextLogs]_vars

\* the loop of putLogEvents runs on, and every call of the log service
\* returns
SpecLogsLive == SpecLogs /\ WF_vars(NextLogs)

(* --------------------- Manifest.Load and the cron jobs ----------------- *)

\* the bytes [-a-zA-Z0-9] of regexValidCronLabel
LabelBytes == LowerLetters \o UpperLetters \o "0123456789-"

\* regexValidCronLabel.MatchString(name): \A[a-zA-Z][-a-zA-Z0-9]{3,29}\z
regexValidCronLabel(name) ==
  /\ Len(name) >= 1 + 3
  /\ Len(name) <= 1 + 29
  /\ Index(LowerLetters \o UpperLetters, SubSeq(name, 1, 1)) # -1
  /\ \A n \in 2..Len(name) : Index(LabelBytes, SubSeq(name, n, n)) # -1

ErrCronFormat ==
  <<"fmt", "Cron task is not valid (must be in format convox.cron.myjob)", "">>

ErrCronName(name) ==
  <<"fmt", "Cron task %s is not valid (cron names can contain only alphanumeric characters and dashes and must be between 4 and 30 characters)", name>>

\* what Validate finds wrong with the label key k
ValidateKey(k) ==
  LET parts == Split(k, ".")
  IN IF Len(parts) # 3 THEN ErrCronFormat
     ELSE IF ~regexValidCronLabel(parts[3]) THEN ErrCronName(parts[3])
     ELSE NoError

\* what m.Validate() may return: the error of the first cron label key the
\* ranges over the maps yield that is not valid, nil when all are valid
Validate(m) ==
  LET labels(s) == LabelsByPrefix(m.Services[s], "convox.cron")
      errors == {ValidateKey(k) :
                   k \in UNION {DOMAIN labels(s) : s \in DOMAIN m.Services}} \ {NoError}
  IN IF errors = {} THEN {NoError} ELSE errors

\* the cron label keys and values of the manifests loaded
CronKeys == {"convox.cron.cleanup", "convox.cron.job", "convox.cron.a.b", "convox.cron.9lives"}

CronValues ==
  {"0 3 * * ? bin/cleanup", "30 *  * * ? bin/report  now", "0 3 * * ?", "0 3 * *", ""}

\* the manifests loaded: one service with two cron labels
LoadedManifests ==
  {[Services |-> MapFrom({<<"web", [Name |-> "web",
      Labels |-> MapFrom({<<k1, v1>>, <<k2, v2>>, <<"convox.port.443.protocol", "tls">>})]>>})] :
     k1 \in CronKeys, v1 \in CronValues,
     k2 \in {"convox.cron.report", "convox.cron.nightly-2"}, v2 \in CronValues}

\* Load, from the services read to its return
Load(m) ==
  /\ vpc = "idle"
  /\ manifest' = m
  /\ \E err \in Validate(m) :
       /\ verr' = err
       /\ vpc' = IF err = NoError THEN "loaded" ELSE "rejected"
  /\ UNCHANGED ljobs
  /\ UNCHANGED <<hsvars, rtvars, ecsvars, certvars, namevars, compvars, ordervars,
                 logvars, keyvars, svars, cache, skipCache>>

\* the call appCronJobs(a, m) on the manifest Load returned
LoadedCronJobs ==
  /\ vpc = "loaded"
  /\ \E jobs \in appCronJobs(App, manifest) : ljobs' = <<jobs>>
  /\ vpc' = IF CronPanics(manifest) # {} THEN "panic" ELSE "jobs"
  /\ UNCHANGED <<manifest, verr>>
  /\ UNCHANGED <<hsvars, rtvars, ecsvars, certvars, namevars, compvars, ordervars,
                 logvars, keyvars, svars, cache, skipCache>>

\* no manifest loaded yet
InitLoad ==
  /\ StacksIdle
  /\ stack = LiveStack
  /\ skipCache = FALSE
  /\ HelpersIdle
  /\ CertIdle
  /\ NamesIdle
  /\ CompileIdle
  /\ OrderIdle
  /\ LogsIdle
  /\ LabelsIdle
  /\ KeysIdle

NextLoad ==
  \/ \E m \in LoadedManifests : Load(m)
  \/ LoadedCronJobs

SpecLoad == InitLoad /\ [][NextLoad]_vars

(* ------------------------- claims: updateStack ------------------------- *)

\* the lifecycle task has returned from updateStack
UpdateReturned == mop = "updateStack" /\ pc[Manager] = "idle"

\* the request of the running updateStack call is built
RequestBuilt == pc[Manager] \in {"submit", "clear"}

\* the target parameter set of the running call, read off its arguments and
\* the live stack
TargetSet ==
  IF args.template = <<>> THEN DOMAIN stack.Parameters
  ELSE DOMAIN args.template[1].members["Parameters"]

EntriesOf(P) ==
  {i \in 1..Len(req[1].Parameters) : req[1].Parameters[i].ParameterKey = P}

\* C1: for every parameter P of the target set the request carries P with the
\* value of changes when changes has P, else with the use-previous-value
\* marker and no value when the live stack has P, else not at all
C1_ParameterCarryForward ==
  pc[Manager] = "submit" =>
    \A P \in TargetSet :
      IF P \in DOMAIN args.changes
      THEN /\ Cardinality(EntriesOf(P)) = 1
           /\ \A i \in EntriesOf(P) :
                /\ req[1].Parameters[i].ParameterValue = args.changes[P]
                /\ req[1].Parameters[i].UsePreviousValue = Nil
      ELSE IF P \in DOMAIN stack.Parameters
      THEN /\ Cardinality(EntriesOf(P)) = 1
           /\ \A i \in EntriesOf(P) :
                /\ req[1].Parameters[i].ParameterValue = Nil
                /\ req[1].Parameters[i].UsePreviousValue = "true"
      ELSE EntriesOf(P) = {}

\* C2: whenever updateStack returns, with success or with any error, the
\* cache holds no live describeStacks entry for name
C2_CacheClearedOnEveryReturn ==
  [][(pc[Manager] # "idle" /\ pc'[Manager] = "idle")
       => cacheGet(cache', "describeStacks", KeyOf(StackName)) = <<>>]_vars

\* C3: every tag key appears at most once in the request, a key of both the
\* live stack and the supplied tags carries the supplied value, a key of the
\* live stack alone keeps its live value
C3_TagsMerged ==
  pc[Manager] = "submit" =>
    /\ \A i, j \in 1..Len(req[1].Tags) :
         req[1].Tags[i].Key = req[1].Tags[j].Key => i = j
    /\ \A i \in 1..Len(req[1].Tags) :
         LET k == req[1].Tags[i].Key
         IN IF k \in DOMAIN args.tags THEN req[1].Tags[i].Value = args.tags[k]
            ELSE k \in DOMAIN stack.Tags /\ req[1].Tags[i].Value = stack.Tags[k]
    /\ TagKeysOf(req[1].Tags) = DOMAIN args.tags \cup DOMAIN stack.Tags

\* C4: while updateStack is between its first invalidation and its return, no
\* reader is served from the cache a description older than the live stack
C4_NoStaleHitWhileInFlight ==
  [][\A r \in Readers :
       (pc[Manager] # "idle" /\ pc[r] = "ds_get" /\ pc'[r] = "ds_ret")
         => \A i \in 1..Len(dstacks'[r]) :
              dstacks'[r][i].LastUpdatedTime = stack.LastUpdatedTime]_vars

\* C5: once updateStack has returned, the cache holds no describeStacks entry
\* for name that was fetched before the update request was submitted
C5_NoStaleEntryAfterReturn ==
  UpdateReturned =>
    LET hit == cacheGet(cache, "describeStacks", KeyOf(StackName))
    IN hit # <<>> =>
         \A i \in 1..Len(hit[1]) : hit[1][i].LastUpdatedTime = stack.LastUpdatedTime

\* C6: when createStack returns, the cache holds no live describeStacks entry
\* for name
C6_CreateClearsCache ==
  [][(mop' = "createStack" /\ calls' = calls + 1)
       => cacheGet(cache', "describeStacks", KeyOf(StackName)) = <<>>]_vars

\* C7: when updateStack returns, no entry written before the call is still
\* live in the cache for the stack, under any stack-description operation
C7_AllStackEntriesCleared ==
  [][(pc[Manager] # "idle" /\ pc'[Manager] = "idle")
       => \A k \in DOMAIN cache' :
            cache'[k].written < calls' => cacheGet(cache', k[1], k[2]) = <<>>]_vars

\* C8: a call issues at most one update request, and what it returns after
\* the request is the error the provider gave for it
C8_OneRequestErrorReturned ==
  /\ submits <= 1
  /\ pc[Manager] = "clear" => submits = 1
  /\ UpdateReturned /\ submits = 1 => ret = uerr

\* the provider said there are no changes to apply, and updateStack returned that
C8_Witness ==
  UpdateReturned /\ submits = 1 /\ uerr = ErrNoUpdates /\ ret = ErrNoUpdates

\* the error describeStack gives for what describeStacks returned to the call
DescribeFault ==
  IF IsAwsCode(derr[Manager], "ValidationError")
  THEN <<"fmt", "stack not found: ", StackName>>
  ELSE IF derr[Manager] # NoError THEN derr[Manager]
  ELSE IF Len(dstacks[Manager]) # 1
  THEN <<"fmt", "could not load stack: ", StackName>>
  ELSE NoError

\* C9: when the stack cannot be described, updateStack returns the error at
\* once: not-found for a ValidationError, could-not-load for a number of
\* stacks other than one, any other fault unchanged; it has submitted no
\* request and written no object
C9_DescribeFailureReturned ==
  [][(pc[Manager] = "ds_ret" /\ pc'[Manager] # "ds_ret" /\ DescribeFault # NoError)
       => /\ pc'[Manager] = "idle"
          /\ ret' = DescribeFault
          /\ submits' = 0
          /\ stores' = 0
          /\ objects' = objects
          /\ stack' = stack]_vars

\* updateStack returned not-found for a stack the provider does not have
C9_Witness ==
  /\ UpdateReturned
  /\ ~stack.exists
  /\ ret = <<"fmt", "stack not found: ", StackName>>
  /\ submits = 0
  /\ stores = 0

\* C10: a request for a supplied document carries the URL of the object the
\* document was written to, no inline body and no UsePreviousTemplate, and
\* its parameters are drawn from the document's parameter names; a request
\* without document carries UsePreviousTemplate and no URL, and its
\* parameters are the live stack's existing parameter set
C10_TemplateReference ==
  RequestBuilt =>
    /\ "TemplateBody" \notin DOMAIN req[1]
    /\ IF args.template # <<>>
       THEN /\ stores = 1
            /\ ObjectAt(objects, req[1].TemplateURL) = args.template
            /\ req[1].UsePreviousTemplate = Nil
            /\ ParamKeys(req[1].Parameters)
                 \subseteq DOMAIN args.template[1].members["Parameters"]
       ELSE /\ stores = 0
            /\ req[1].TemplateURL = <<>>
            /\ req[1].UsePreviousTemplate = "true"
            /\ ParamKeys(req[1].Parameters) = DOMAIN stack.Parameters

(* ----------------------- claims: humanStatus, retry -------------------- *)

\* the canonical state the status table gives for a raw status
Canonical(s) ==
  IF s = "" THEN "new"
  ELSE IF s = "CREATE_IN_PROGRESS" THEN "creating"
  ELSE IF s \in {"CREATE_COMPLETE", "UPDATE_COMPLETE", "UPDATE_ROLLBACK_COMPLETE",
                 "DELETE_FAILED"} THEN "running"
  ELSE IF s \in {"UPDATE_IN_PROGRESS", "UPDATE_COMPLETE_CLEANUP_IN_PROGRESS"}
  THEN "updating"
  ELSE IF s = "DELETE_IN_PROGRESS" THEN "deleting"
  ELSE IF s \in {"ROLLBACK_IN_PROGRESS", "UPDATE_ROLLBACK_IN_PROGRESS",
                 "UPDATE_ROLLBACK_COMPLETE_CLEANUP_IN_PROGRESS"} THEN "rollback"
  ELSE IF s \in {"ROLLBACK_COMPLETE", "UPDATE_ROLLBACK_FAILED"} THEN "failed"
  ELSE "unknown"

\* C11: humanStatus returns the canonical state of the table for every status
\* of the table and "unknown" for every other string
C11_StatusMappingTotal ==
  human # <<>> => human = <<Canonical(original)>>

\* a status outside the table was mapped to unknown
C11_Witness ==
  /\ original = "CREATE_FAILED"
  /\ human = <<"unknown">>

\* retry has ended: it returned or it panicked
RetryEnded == rpc \in {"done", "panic"}

\* C12: a retry whose fn fails on every call invokes fn exactly times+1 times
\* and returns the error of the last invocation
C12_AlwaysFailingInvokesTimesPlusOne ==
  firstOk > times + 1 =>
    /\ invocations <= times + 1
    /\ RetryEnded =>
         /\ rpc = "done"
         /\ invocations = times + 1
         /\ rret = FnError(invocations)

\* C13: once an invocation of fn has returned no error, retry has returned
\* nil, that invocation is the last one, and no sleep followed it
C13_ReturnsNilOnFirstSuccess ==
  (invocations >= 1 /\ ferr = NoError) =>
    /\ rpc = "done"
    /\ rret = NoError
    /\ invocations = firstOk
    /\ Len(sleeps) = invocations - 1

\* the third invocation succeeded after two failures
C13_Witness ==
  /\ rpc = "done"
  /\ times = 3
  /\ firstOk = 3
  /\ invocations = 3
  /\ Len(sleeps) = 2
  /\ rret = NoError

\* the attempts of retry that have failed so far
FailedAttempts ==
  IF invocations >= 1 /\ ferr = NoError THEN invocations - 1 ELSE invocations

\* C14: retry sleeps after each failed attempt, each sleep lasts at least
\* interval, and its jitter is drawn from [0, interval/5)
C14_SleepJitter ==
  /\ rpc # "panic"
  /\ rpc \in {"call", "done"} => Len(sleeps) = FailedAttempts
  /\ \A k \in 1..Len(sleeps) :
       /\ sleeps[k] >= interval
       /\ sleeps[k] <= interval + interval \div 5
  /\ sleeps # <<>> => jitterN = interval \div 5

(* ---------------- claims: token, decoding, request order --------------- *)

\* C15: the request carries the idempotency token exactly when a non-empty
\* token was supplied, and the token it carries is the supplied one
C15_TokenAttachedWhenSupplied ==
  RequestBuilt =>
    /\ args.id # "" => req[1].ClientRequestToken = args.id
    /\ args.id = "" => req[1].ClientRequestToken = Nil

\* a request built for the token "tok"
C15_Witness ==
  /\ pc[Manager] = "submit"
  /\ args.id = "tok"
  /\ req[1].ClientRequestToken = "tok"

\* the Parameters section of a document as written, empty when it has none
ParametersSection(d) ==
  IF "Parameters" \in DOMAIN d.members THEN DOMAIN d.members["Parameters"] ELSE {}

\* the supplied document of the running call does not decode
Undecodable == args.template # <<>> /\ ~args.template[1].wellFormed

\* C16: formationParameters returns the keys of the Parameters section of a
\* well-formed document and fails on a malformed one; when decoding the
\* supplied document fails, updateStack returns with that error, and for a
\* document that does not decode no request is built or submitted and the
\* live stack stays as it is
C16_DecodeFailureStopsUpdate ==
  [][/\ \A d \in Docs :
          IF d.wellFormed
          THEN formationParameters(d) = [params |-> ParametersSection(d), err |-> NoError]
          ELSE formationParameters(d).err # NoError
     /\ Undecodable =>
          /\ req' = <<>>
          /\ submits' = 0
          /\ stack' = stack
          /\ pc'[Manager] \notin {"submit", "clear"}
     /\ (Undecodable /\ pc[Manager] = "template" /\ pc'[Manager] # "template") =>
          /\ pc'[Manager] = "idle"
          /\ \/ ret' = formationParameters(args.template[1]).err
             \/ /\ ret' # NoError
                /\ \E o \in ObjectStore("", args.template[1]) :
                     ret' \in {o.err, objectURL(o.Url).err}]_vars

\* updateStack returned the decoding error of DocBad without a request
C16_Witness ==
  /\ UpdateReturned
  /\ ret = parseFormation(DocBad).err
  /\ ret # NoError
  /\ stores = 1
  /\ submits = 0

\* C17: the parameters of a request are in strictly ascending order of name,
\* the supplied tags end the tag list in ascending order of key, and the
\* request is a function of the arguments and the live stack: it is the one
\* request the construction yields for them
C17_RequestDeterministic ==
  pc[Manager] = "submit" =>
    LET ps == req[1].Parameters
        ts == req[1].Tags
        n == Cardinality(DOMAIN args.tags)
        fp == IF args.template = <<>> THEN {}
              ELSE formationParameters(args.template[1]).params
    IN /\ \A k \in 1..(Len(ps) - 1) : StrLess(ps[k].ParameterKey, ps[k + 1].ParameterKey)
       /\ Len(ts) >= n
       /\ \A k \in (Len(ts) - n + 1)..Len(ts) :
            /\ ts[k].Key \in DOMAIN args.tags
            /\ ts[k].Value = args.tags[ts[k].Key]
            /\ k < Len(ts) => StrLess(ts[k].Key, ts[k + 1].Key)
       /\ req[1] = updateStackInput(StackName, args.template, req[1].TemplateURL, fp,
                                    StackDescription(stack), args.changes, args.tags,
                                    args.id)

(* --------------------------- claims: the cache ------------------------- *)

\* C18: with SkipCache set no step of a describe or list call or of a release
\* lookup changes the cache, and every cache.Get of such a call misses
C18_BypassLeavesCacheUnchanged ==
  [][skipCache =>
       /\ cache' = cache
       /\ (eframes # <<>> /\ Top.pc = "get" /\ Len(eframes') = Len(eframes))
            => eframes'[Len(eframes)].pc = "call"
       /\ \A r \in Readers :
            /\ (pc[r] = "ds_get" /\ pc'[r] # "ds_get") => pc'[r] = "ds_call"
            /\ (pc[r] = "op_get" /\ pc'[r] # "op_get") => pc'[r] = "op_call"]_vars

\* the description calls of the task and container part
DescriptionCalls == EcsWrappers \cup {"stackTemplate"}

\* C19: a description call that finds its key in the cache returns the cached
\* value without a provider call, and one that returns the provider's output
\* leaves that output in the cache under its key (unless SkipCache is set or
\* the output reports failures)
C19_DescriptionCallsReadThrough ==
  [][/\ (eframes # <<>> /\ Top.op \in DescriptionCalls /\ Top.pc = "get"
           /\ cacheGet(cache, Top.op, Top.key) # <<>>)
          => eframes' = WithTop(Returning(cacheGet(cache, Top.op, Top.key), NoError))
     /\ (eframes # <<>> /\ Top.op \in DescriptionCalls /\ Top.pc # "ret"
           /\ Len(eframes') = Len(eframes)
           /\ eframes'[Len(eframes)].pc = "ret"
           /\ eframes'[Len(eframes)].err = NoError
           /\ ~(Top.op = "describeTasks" /\ eframes'[Len(eframes)].res[1].Failures # 0)
           /\ ~skipCache)
          => cacheGet(cache', Top.op, Top.key) = eframes'[Len(eframes)].res
     /\ \A r \in Readers :
          /\ (pc[r] = "ds_get" /\ pc'[r] # "ds_get"
                /\ cacheGet(cache, "describeStacks", KeyOf(StackName)) # <<>>)
               => /\ pc'[r] = "ds_ret"
                  /\ <<dstacks'[r]>> = cacheGet(cache, "describeStacks", KeyOf(StackName))
          /\ (pc[r] # "ds_ret" /\ pc'[r] = "ds_ret" /\ derr'[r] = NoError /\ ~skipCache)
               => cacheGet(cache', "describeStacks", KeyOf(StackName)) = <<dstacks'[r]>>
          /\ (pc[r] = "op_get" /\ pc'[r] # "op_get"
                /\ cacheGet(cache, rcall[r].op, StackOpKey(rcall[r])) # <<>>)
               => /\ pc'[r] = "op_ret"
                  /\ <<ritem'[r]>> = cacheGet(cache, rcall[r].op, StackOpKey(rcall[r]))
          /\ (pc[r] # "op_ret" /\ pc'[r] = "op_ret" /\ ritem'[r] # <<>> /\ ~skipCache)
               => cacheGet(cache', rcall[r].op, StackOpKey(rcall[r])) = <<ritem'[r]>>]_vars

\* the cache collections of frequently changing state
Volatile ==
  {"describeTasks", "describeServices", "describeContainerInstances",
   "listContainerInstances", "describeStacks", "describeStackEvents",
   "describeStackResource", "describeStackResources", "listStackResources"}

\* the cache collections of facts that never change once created
Immutable == {"describeTaskDefinition", "taskRelease", "taskDefinitionRelease"}

\* C20: every entry of frequently changing state has a ttl strictly below 10
\* seconds and every entry of an immutable fact a ttl of several hours
C20_TtlByVolatility ==
  \A k \in DOMAIN cache :
    /\ k[1] \in Volatile => cache[k].ttl < 10
    /\ k[1] \in Immutable => cache[k].ttl >= 2 * 3600

\* C20 as the code has it: every entry of frequently changing state has a ttl
\* of at most 10 seconds (5 or 10), every entry of an immutable fact one of
\* 24 hours
C20_TtlByVolatilityAtMostTen ==
  \A k \in DOMAIN cache :
    /\ k[1] \in Volatile \cup Immutable
    /\ k[1] \in Volatile => cache[k].ttl \in {5, 10}
    /\ k[1] \in Immutable => cache[k].ttl = 24 * 3600

\* the cache holds a description of tasks for 10 seconds and a release label
\* for a day
C20_Witness ==
  /\ <<"describeTasks", <<TaskId>>>> \in DOMAIN cache
  /\ cache[<<"describeTasks", <<TaskId>>>>].ttl = 10
  /\ <<"taskDefinitionRelease", <<TaskDefinitionArn>>>> \in DOMAIN cache
  /\ cache[<<"taskDefinitionRelease", <<TaskDefinitionArn>>>>].ttl = 24 * 3600
  /\ <<"describeStacks", KeyOf(StackName)>> \in DOMAIN cache
  /\ cache[<<"describeStacks", KeyOf(StackName)>>].ttl = 5

(* -------------------- claims: waitForServerCertificate ----------------- *)

\* a probe that answered a confirms the certificate called name
Confirms(a, name) ==
  a \in {[res |-> <<[ServerCertificate |->
                       <<[ServerCertificateMetadata |->
                            <<[ServerCertificateName |-> <<name>>]>>]>>]>>,
           err |-> NoError]}

\* the number of answers at the end of answers that confirm name
RECURSIVE Trailing(_, _)
Trailing(answers, name) ==
  IF answers = <<>> \/ ~Confirms(answers[Len(answers)], name) THEN 0
  ELSE 1 + Trailing(SubSeq(answers, 1, Len(answers) - 1), name)

\* C21: waitForServerCertificate returns nil only when the last
\* serverCertificateWaitConfirmations probes all confirmed the requested
\* name, and its counter is the number of confirming probes since the last
\* probe that failed (an error, a nil on the way to the name, or another
\* name): a failed probe puts it back to zero.
C21_ConsecutiveConfirmations ==
  wpc \in {"check", "sleep", "probe", "returned"} =>
    /\ confirmations = Trailing(recent, wname)
    /\ (wpc = "returned" /\ wret = NoError) =>
         /\ Len(recent) = serverCertificateWaitConfirmations
         /\ \A n \in 1..Len(recent) : Confirms(recent[n], wname)

\* nil was returned although a probe had failed: more probes were made than
\* the confirmations needed
C21_Witness ==
  /\ wpc = "returned"
  /\ wret = NoError
  /\ probeAt[1] > 4 * serverCertificateWaitTick

\* C22: waitForServerCertificate returns whatever the probes answer, and no
\* probe is issued after the deadline done.
C22_TerminatesNoLateProbe ==
  /\ <>(wpc = "returned")
  /\ [](wpc # "call" /\ probeAt # <<>> => probeAt[1] <= wdone)

(* ------------------------ claims: CronJob.LongName --------------------- *)

\* the identifier length limit, and the suffix of an identifier: the separator
\* and seven characters of hash
IdentifierLimit == 64
SuffixLen == 8

\* the human-readable part of an identifier and its suffix
Readable(id) == SubSeq(id, 1, Len(id) - SuffixLen)
SuffixOf(id) == SubSeq(id, Len(id) - SuffixLen + 1, Len(id))

IsPrefix(p, s) == Len(p) <= Len(s) /\ SubSeq(s, 1, Len(p)) = p

\* C23: the identifier LongName returns is a prefix of the natural name
\* rack-app-service-job followed by "-" and seven characters of the hash of
\* the whole natural name; it has at most 64 characters, also with
\* "-schedule" after it; and two calls whose natural names are equal return
\* the same identifier.
C23_LongNameBoundedDeterministic ==
  longName # <<>> =>
    LET id == longName[1]
        natural == NaturalName(rackEnv, cr)
    IN /\ Len(id) >= SuffixLen
       /\ IsPrefix(Readable(id), natural)
       /\ SuffixOf(id) = "-" \o SubSeq(EncodeToString(Sum256(natural)), 1, 7)
       /\ Len(id) <= IdentifierLimit
       /\ Len(id \o "-schedule") <= IdentifierLimit
       /\ (earlier # <<>> /\ NaturalName(earlier[1].rack, earlier[1].cr) = natural)
            => earlier[1].id = id

\* a natural name above the limit was named twice, from two different
\* (app, service) pairs
C23_Witness ==
  /\ longName # <<>>
  /\ earlier # <<>>
  /\ earlier[1].cr # cr
  /\ NaturalName(earlier[1].rack, earlier[1].cr) = NaturalName(rackEnv, cr)
  /\ Len(NaturalName(rackEnv, cr)) > IdentifierLimit

\* C24 as stated: a natural name of at most 64 characters keeps its full
\* form, and a longer one is cut to what the 8-character suffix leaves of the
\* 64 characters.
C24_TruncatedAboveLimitOnly ==
  longName # <<>> =>
    LET id == longName[1]
        natural == NaturalName(rackEnv, cr)
    IN /\ Len(natural) <= IdentifierLimit => Readable(id) = natural
       /\ Len(natural) > IdentifierLimit =>
            Readable(id) = SubSeq(natural, 1, IdentifierLimit - SuffixLen)

\* C24 as the code has it: a natural name of at most 47 characters keeps its
\* full form, and a longer one is cut to exactly 47 characters, which is what
\* the suffix and "-schedule" leave of the 64 characters.
C24_TruncatedAboveFortySevenOnly ==
  longName # <<>> =>
    LET id == longName[1]
        natural == NaturalName(rackEnv, cr)
        room == IdentifierLimit - Len("-schedule") - SuffixLen
    IN /\ Len(natural) <= room => Readable(id) = natural
       /\ Len(natural) > room =>
            /\ Readable(id) = SubSeq(natural, 1, room)
            /\ Len(id \o "-schedule") = IdentifierLimit

\* a natural name of 48 to 64 characters was named
C24_Witness ==
  /\ longName # <<>>
  /\ Len(NaturalName(rackEnv, cr)) > 47
  /\ Len(NaturalName(rackEnv, cr)) <= IdentifierLimit

(* ----------------------- claims: the compiled document ----------------- *)

\* the value of the entry called key in a list of entries
ValueOf(entries, key) ==
  entries[CHOOSE n \in 1..Len(entries) : entries[n].key = key].value

\* the entries called key in a list of entries
Named(entries, key) == {n \in 1..Len(entries) : entries[n].key = key}

\* the string an expression over the parameters stands for, given the values
\* of the parameters
Resolved(e, values) ==
  CASE e[1] = "lit" -> e[2]
    [] e[1] = "Ref" -> values[e[2]]
    [] e[1] = "Fn::SelectOfJoined" ->
         Split(Join(values[e[3][2]], ",") \o ",", ",")[e[2] + 1]

\* whether a condition expression of the document d holds, given the values
\* of the parameters
RECURSIVE Holds(_, _, _)
Holds(d, e, values) ==
  CASE e[1] = "Condition" -> Holds(d, ValueOf(d.Conditions, e[2]), values)
    [] e[1] = "Fn::Equals" -> Resolved(e[2], values) = Resolved(e[3], values)
    [] e[1] = "Fn::And" -> Holds(d, e[2], values) /\ Holds(d, e[3], values)
    [] e[1] = "Fn::Or" -> Holds(d, e[2], values) \/ Holds(d, e[3], values)
    [] e[1] = "Fn::Not" -> ~Holds(d, e[2], values)

\* the stacks of the services in the document d
ServiceStacks(d) ==
  {n \in 1..Len(d.Resources) :
     \E k \in 1..Len(context.Manifest.Services) :
       d.Resources[n].key = "Service" \o upper(context.Manifest.Services[k].Name)}

\* every service stack is given Isolate = Yes when IsolateServices holds and
\* No otherwise
IsolateFollowsCondition(d) ==
  \A n \in ServiceStacks(d) :
    ValueOf(d.Resources[n].Parameters, "Isolate")
      = If("IsolateServices", Lit("Yes"), Lit("No"))

Serverless == toggles.FargateServices \in {"Yes", "Spot"}

\* C25 as stated: IsolateServices holds exactly when Isolate is Yes or the
\* capacity mode is serverless, whatever Private is, and it decides the
\* Isolate parameter of every service stack.
C25_IsolateOrServerless ==
  doc # <<>> =>
    /\ IsolateFollowsCondition(doc[1])
    /\ Holds(doc[1], Condition("IsolateServices"), toggles)
         <=> (toggles.Isolate = "Yes" \/ Serverless)

\* C25 as the document has it: IsolateServices holds exactly when Isolate
\* and Private are both Yes or the capacity mode is serverless, and it
\* decides the Isolate parameter of every service stack.
C25_PrivateIsolateOrServerless ==
  doc # <<>> =>
    /\ IsolateFollowsCondition(doc[1])
    /\ Holds(doc[1], Condition("IsolateServices"), toggles)
         <=> ((toggles.Isolate = "Yes" /\ toggles.Private = "Yes") \/ Serverless)

\* isolation was asked for without Private and without serverless capacity
C25_Witness ==
  /\ doc # <<>>
  /\ toggles.Isolate = "Yes"
  /\ toggles.Private = "No"
  /\ ~Serverless
  /\ ~Holds(doc[1], Condition("IsolateServices"), toggles)

\* the services of the manifest that have a balancer and domains
BalancedWithDomains ==
  {k \in 1..Len(context.Manifest.Services) :
     /\ context.Manifest.Services[k].Port.Port # 0
     /\ context.Manifest.Services[k].Domains # <<>>}

\* the known certificates whose domains include every domain of the list
Covering(domains) ==
  {n \in 1..Len(context.Certificates) :
     {domains[k] : k \in 1..Len(domains)} \subseteq context.Certificates[n].Domains}

\* C26: a service with a balancer and domains whose domains are all among
\* those of one known certificate is given the reference of such a
\* certificate and the document has no Balancer<Service>Certificate for it;
\* any other such service is given a Ref to its Balancer<Service>Certificate,
\* of which the document has exactly one, covering the requested domains.
C26_CertificateReuse ==
  doc # <<>> =>
    \A k \in BalancedWithDomains :
      LET s == context.Manifest.Services[k]
          own == "Balancer" \o upper(s.Name) \o "Certificate"
          given == ValueOf(doc[1].Resources[
                     CHOOSE n \in 1..Len(doc[1].Resources) :
                       doc[1].Resources[n].key = "Service" \o upper(s.Name)].Parameters,
                     "Certificate")
      IN IF Covering(s.Domains) # {}
         THEN /\ Named(doc[1].Resources, own) = {}
              /\ given[1] = "lit"
              /\ \E n \in Covering(s.Domains) : given[2] = context.Certificates[n].Arn
         ELSE /\ Cardinality(Named(doc[1].Resources, own)) = 1
              /\ \A n \in Named(doc[1].Resources, own) :
                   doc[1].Resources[n].Domains = s.Domains
              /\ given = Ref(own)

\* a service asking for one of the two domains of a known certificate was
\* compiled
C26_Witness ==
  /\ doc # <<>>
  /\ \E k \in BalancedWithDomains :
       /\ context.Manifest.Services[k].Domains = <<"a.example.com">>
       /\ Covering(context.Manifest.Services[k].Domains) # {}
       /\ \A n \in Covering(context.Manifest.Services[k].Domains) :
            context.Certificates[n].Domains # {"a.example.com"}

\* the elements of the CommaDelimitedList parameter called key, as the
\* document's default gives them
ListDefault(d, key) ==
  Split(d.Parameters[CHOOSE n \in 1..Len(d.Parameters) :
                       d.Parameters[n].key = key].Default[1], ",")

\* what the Fn::Select e picks from the default of the list it refers to
Selected(d, e) == ListDefault(d, e[3][2])[e[2] + 1]

\* the parameters of the resource called key
ParametersOf(d, key) ==
  d.Resources[CHOOSE n \in 1..Len(d.Resources) : d.Resources[n].key = key].Parameters

\* C27: the <Service>Formation default is (min count, cpu, memory) of the
\* service's scale; the service stack's Count, Cpu and Memory select
\* positions 0, 1 and 2 of it and so give back the three values, and every
\* timer stack's Cpu and Memory select positions 1 and 2 of the parameter
\* of the timer's service.
C27_ScaleTripleRoundTrip ==
  doc # <<>> =>
    /\ \A k \in 1..Len(context.Manifest.Services) :
         LET s == context.Manifest.Services[k]
             ps == ParametersOf(doc[1], "Service" \o upper(s.Name))
         IN /\ Len(ListDefault(doc[1], upper(s.Name) \o "Formation")) = 3
            /\ ValueOf(ps, "Count") = Select(0, Ref(upper(s.Name) \o "Formation"))
            /\ ValueOf(ps, "Cpu") = Select(1, Ref(upper(s.Name) \o "Formation"))
            /\ ValueOf(ps, "Memory") = Select(2, Ref(upper(s.Name) \o "Formation"))
            /\ Selected(doc[1], ValueOf(ps, "Count")) = ToString(s.Scale.Count.Min)
            /\ Selected(doc[1], ValueOf(ps, "Cpu")) = ToString(s.Scale.Cpu)
            /\ Selected(doc[1], ValueOf(ps, "Memory")) = ToString(s.Scale.Memory)
    /\ \A k \in 1..Len(context.Manifest.Timers) :
         LET t == context.Manifest.Timers[k]
             s == ServiceNamed(context.Manifest, t.Service)
             ps == ParametersOf(doc[1], "Timer" \o upper(t.Name))
         IN /\ ValueOf(ps, "Cpu") = Select(1, Ref(upper(s.Name) \o "Formation"))
            /\ ValueOf(ps, "Memory") = Select(2, Ref(upper(s.Name) \o "Formation"))
            /\ Selected(doc[1], ValueOf(ps, "Cpu")) = ToString(s.Scale.Cpu)
            /\ Selected(doc[1], ValueOf(ps, "Memory")) = ToString(s.Scale.Memory)

\* a manifest with timers of two services of different scales was compiled
C27_Witness ==
  /\ doc # <<>>
  /\ \E k, l \in 1..Len(context.Manifest.Timers) :
       ServiceNamed(context.Manifest, context.Manifest.Timers[k].Service).Scale.Cpu
         # ServiceNamed(context.Manifest, context.Manifest.Timers[l].Service).Scale.Cpu

\* the keys of a list of entries
KeysOf(entries) == {entries[n].key : n \in 1..Len(entries)}

UpperNames(list) == {upper(list[n].Name) : n \in 1..Len(list)}

\* the keys of the entries the document has for the balancers of the
\* services, for the services, for the resources and for the timers
BalancerKeys ==
  UNION {{"RecordSet" \o u \o "Internal", "Balancer" \o u \o "Certificate"} :
           u \in UpperNames(context.Manifest.Services)}

ServiceKeys ==
  BalancerKeys
  \cup UNION {{"Service" \o u \o "Fargate", "Service" \o u \o "FargateSpot",
               "Service" \o u \o "Service", u \o "Formation", "Service" \o u} :
                u \in UpperNames(context.Manifest.Services)}

ResourceKeys == {"Resource" \o u : u \in UpperNames(context.Manifest.Resources)}

TimerKeys == {"Timer" \o u : u \in UpperNames(context.Manifest.Timers)}

\* the keys of the entries derived from the toggles: the parameters that are
\* the toggles, the conditions over them and the outputs that report them
ToggleKeys ==
  KeysOf(RootParameters) \cup KeysOf(RootConditions)
    \cup {"FargateServices", "FargateSpotServices"}

\* the place of an entry in the order (toggle-derived, per-service,
\* per-resource, per-timer, fixed), given the keys of the last four kinds
Class(key, sk, rk, tk) ==
  IF key \in ToggleKeys THEN 0
  ELSE IF key \in sk THEN 1
  ELSE IF key \in rk THEN 2
  ELSE IF key \in tk THEN 3
  ELSE 4

\* the four sections come in the order Conditions, Outputs, Parameters,
\* Resources
SectionsInOrder(d) ==
  SelectSeq(d.sections,
            LAMBDA x : x \in {"Conditions", "Outputs", "Parameters", "Resources"})
    = <<"Conditions", "Outputs", "Parameters", "Resources">>

\* the keys of the entries of each section, in the order of the document
SectionKeys(d) ==
  <<[n \in 1..Len(d.Conditions) |-> d.Conditions[n].key],
    [n \in 1..Len(d.Outputs) |-> d.Outputs[n].key],
    [n \in 1..Len(d.Parameters) |-> d.Parameters[n].key],
    [n \in 1..Len(d.Resources) |-> d.Resources[n].key]>>

\* C28 as stated: the sections come in the order conditions, outputs,
\* parameters, resources, and the entries of each section in the order
\* toggle-derived, per-service, per-resource, per-timer, fixed.
C28_SectionsAndEntriesOrdered ==
  doc # <<>> =>
    LET sk == ServiceKeys
        rk == ResourceKeys
        tk == TimerKeys
        keys == SectionKeys(doc[1])
    IN /\ SectionsInOrder(doc[1])
       /\ \A x \in 1..4 :
            LET classes == [n \in 1..Len(keys[x]) |-> Class(keys[x][n], sk, rk, tk)]
            IN \A n \in 1..(Len(classes) - 1) : classes[n] <= classes[n + 1]

\* the place of a resource in the order the document has
Place(key, bk, sk, rk, tk) ==
  IF key \in bk THEN 1
  ELSE IF key \in rk THEN 2
  ELSE IF key = "ServiceRole" THEN 3
  ELSE IF key \in sk THEN 4
  ELSE IF key \in {"TimerLauncher", "TimerRole"} THEN 5
  ELSE IF key \in tk THEN 6
  ELSE 7

\* C28 as the document has it: the sections come in the order conditions,
\* outputs, parameters, resources; in Conditions, Outputs and Parameters the
\* per-service entries come first and the toggle-derived and fixed entries
\* after them; in Resources the order is balancer entries of the services,
\* per-resource stacks, the service role, per-service stacks, the timer
\* launcher and its role, per-timer stacks, fixed infrastructure.
C28_ServicesFirstFixedLast ==
  doc # <<>> =>
    LET bk == BalancerKeys
        sk == ServiceKeys
        rk == ResourceKeys
        tk == TimerKeys
        keys == SectionKeys(doc[1])
        places == [n \in 1..Len(keys[4]) |-> Place(keys[4][n], bk, sk, rk, tk)]
    IN /\ SectionsInOrder(doc[1])
       /\ \A x \in 1..3 :
            LET mine == [n \in 1..Len(keys[x]) |-> keys[x][n] \in sk]
            IN \A n \in 1..(Len(mine) - 1) : mine[n + 1] => mine[n]
       /\ \A n \in 1..(Len(places) - 1) : places[n] <= places[n + 1]

\* a manifest with a balancer, resources and timers was compiled
C28_Witness ==
  /\ doc # <<>>
  /\ context.Manifest.Resources # <<>>
  /\ context.Manifest.Timers # <<>>
  /\ context.Manifest.Services[1].Port.Port # 0
  /\ Len(context.Manifest.Services) > 1

\* executing the template twice on the same data gave the same document
DocumentDeterministic ==
  (before # <<>> /\ doc # <<>>) => doc[1] = before[1].doc

C30_KeysWithinTargetSet ==
  RequestBuilt =>
    /\ \A n \in 1..Len(req[1].Parameters) :
         /\ req[1].Parameters[n].ParameterKey \in TargetSet
         /\ Cardinality(EntriesOf(req[1].Parameters[n].ParameterKey)) = 1
    /\ \A P \in DOMAIN args.changes \ TargetSet : EntriesOf(P) = {}
    /\ args.template = <<>> =>
         ParamKeys(req[1].Parameters) = DOMAIN stack.Parameters
    /\ args.template # <<>> =>
         \A P \in DOMAIN stack.Parameters \ TargetSet : EntriesOf(P) = {}

(* ------------------------ claims: Manifest.runOrder -------------------- *)

\* the services a service links to, among the services of the manifest
LinkedTo(m, n) ==
  {m.Services[n].Links[k] : k \in 1..Len(m.Services[n].Links)}
    \cap DOMAIN m.Services

\* the services reached from n over k links or fewer, k at least 1
RECURSIVE ReachedIn(_, _, _)
ReachedIn(m, n, k) ==
  IF k = 1 THEN LinkedTo(m, n)
  ELSE LET near == ReachedIn(m, n, k - 1)
       IN near \cup UNION {LinkedTo(m, x) : x \in near}

\* no service reaches itself over its links
Acyclic(m) ==
  \A n \in DOMAIN m.Services :
    n \notin ReachedIn(m, n, Cardinality(DOMAIN m.Services))

\* services holds every service of the manifest exactly once
IsPermutation ==
  /\ Len(services) = Cardinality(DOMAIN om.Services)
  /\ \A n \in DOMAIN om.Services :
       \E k \in 1..Len(services) : services[k] = om.Services[n]

\* every service stands after each service it links to
LinksFirst ==
  \A x, y \in 1..Len(services) :
    services[y].Name \in LinkedTo(om, services[x].Name) => y < x

\* C31: what runOrder returns is a permutation of the services of the
\* manifest and, when the links are acyclic, has every service after each
\* service it links to, whatever order the range over the map yielded.
C31_RunOrderSorts ==
  opc = "returned" => IsPermutation /\ (Acyclic(om) => LinksFirst)

(* -------------------- claims: the compiled document, again ------------- *)

\* C32: a service stack whose Certificate parameter is a Ref to
\* Balancer<Service>Certificate finds that resource in the document,
\* whether or not the service has a port, domains or a known certificate.
C32_CertificateReferenceResolves ==
  doc # <<>> =>
    \A k \in 1..Len(context.Manifest.Services) :
      LET s == context.Manifest.Services[k]
          own == "Balancer" \o upper(s.Name) \o "Certificate"
      IN ValueOf(ParametersOf(doc[1], "Service" \o upper(s.Name)), "Certificate")
           = Ref(own)
         => Named(doc[1].Resources, own) # {}

\* the values the stack has for the toggles and for the formation
\* parameters of the document d: the default, and for WebFormation the
\* default with the capacity as its fourth element when one is given
StackValues(d) ==
  LET lists == {d.Parameters[n].key : n \in {k \in 1..Len(d.Parameters) :
                  d.Parameters[k].Type = "CommaDelimitedList"}}
      named == {"Isolate", "Private", "FargateServices", "FargateTimers"}
  IN [k \in named \cup lists |->
        IF k \in named THEN toggles[k]
        ELSE IF k = "WebFormation" /\ toggles.Capacity # ""
             THEN ListDefault(d, k) \o <<toggles.Capacity>>
             ELSE ListDefault(d, k)]

\* what an expression of Fn::If comes to, given the values
RECURSIVE Chosen(_, _, _)
Chosen(d, e, values) ==
  IF e[1] = "Fn::If"
  THEN IF Holds(d, Condition(e[2]), values)
       THEN Chosen(d, e[3], values)
       ELSE Chosen(d, e[4], values)
  ELSE e

\* the fourth element the formation parameter of the service is given
FourthOf(name) == IF name = "web" THEN toggles.Capacity ELSE ""

\* the Fargate parameter of every service stack is Yes when the service's
\* Fargate condition holds, else Spot when its FargateSpot condition holds,
\* else No, and the two conditions hold by the toggle or the fourth element
FargateFollowsConditions(d, values) ==
  \A k \in 1..Len(context.Manifest.Services) :
    LET s == context.Manifest.Services[k]
        base == Holds(d, Condition("Service" \o upper(s.Name) \o "Fargate"), values)
        spot == Holds(d, Condition("Service" \o upper(s.Name) \o "FargateSpot"), values)
    IN /\ base <=> (toggles.FargateServices = "Yes" \/ FourthOf(s.Name) = "FARGATE")
       /\ spot <=> (toggles.FargateServices = "Spot"
                      \/ FourthOf(s.Name) = "FARGATE_SPOT")
       /\ Chosen(d, ValueOf(ParametersOf(d, "Service" \o upper(s.Name)), "Fargate"),
                 values)
            = Lit(IF base THEN "Yes" ELSE IF spot THEN "Spot" ELSE "No")

\* every service stack given Fargate = Yes or Spot is given Isolate = Yes
FargateIsolated(d, values) ==
  \A k \in 1..Len(context.Manifest.Services) :
    LET ps == ParametersOf(d, "Service" \o upper(context.Manifest.Services[k].Name))
    IN Chosen(d, ValueOf(ps, "Fargate"), values) \in {Lit("Yes"), Lit("Spot")}
         => Chosen(d, ValueOf(ps, "Isolate"), values) = Lit("Yes")

\* C33: every service stack that is given Fargate = Yes or Spot, by the
\* toggle FargateServices or by the fourth element of its formation
\* parameter, is given Isolate = Yes as well; and Fargate is Yes when the
\* service's Fargate condition holds, else Spot when its FargateSpot
\* condition holds, else No.
C33_FargateImpliesIsolate ==
  doc # <<>> =>
    LET values == StackValues(doc[1])
    IN FargateFollowsConditions(doc[1], values) /\ FargateIsolated(doc[1], values)

\* the lines the code of the launcher comes to, given the values: the lines
\* chosen by Fn::If, without those that are AWS::NoValue
LauncherLines(d, values) ==
  LET code == d.Resources[CHOOSE n \in 1..Len(d.Resources) :
                            d.Resources[n].key = "TimerLauncher"].Code
  IN {Chosen(d, code[n], values)[2] :
        n \in {k \in 1..Len(code) :
                 Chosen(d, code[k], values) # Ref("AWS::NoValue")}}

\* C40: with FargateTimers No the parameters of the launcher's run-task call
\* have launchType 'EC2' and no capacityProviderStrategy, with Yes the
\* strategy FARGATE and with Spot the strategy FARGATE_SPOT and no
\* launchType, so exactly one of the three in every case; assignPublicIp is
\* enabled exactly with Yes and Spot; and the Fargate parameter of every
\* timer stack is the value of FargateTimers.
C40_TimerLaunchExclusive ==
  doc # <<>> /\ context.Manifest.Timers # <<>> =>
    LET values == StackValues(doc[1])
        lines == LauncherLines(doc[1], values)
        ec2 == "    launchType: 'EC2'," \in lines
        base == "  capacityProviderStrategy: [{capacityProvider: 'FARGATE'}]," \in lines
        spot ==
          "  capacityProviderStrategy: [{capacityProvider: 'FARGATE_SPOT'}]," \in lines
    IN /\ ec2 <=> toggles.FargateTimers = "No"
       /\ base <=> toggles.FargateTimers = "Yes"
       /\ spot <=> toggles.FargateTimers = "Spot"
       /\ Cardinality({x \in {"ec2", "base", "spot"} :
                         \/ x = "ec2" /\ ec2
                         \/ x = "base" /\ base
                         \/ x = "spot" /\ spot}) = 1
       /\ "        assignPublicIp: 'ENABLED'," \in lines
            <=> toggles.FargateTimers \in {"Yes", "Spot"}
       /\ \A k \in 1..Len(context.Manifest.Timers) :
            Chosen(doc[1],
                   ValueOf(ParametersOf(doc[1],
                             "Timer" \o upper(context.Manifest.Timers[k].Name)),
                           "Fargate"),
                   values) = Lit(toggles.FargateTimers)

\* a manifest with timers of two services was compiled for a stack whose
\* timers run on spot capacity
C40_Witness ==
  /\ doc # <<>>
  /\ Len(context.Manifest.Timers) = 2
  /\ toggles.FargateTimers = "Spot"
  /\ "  capacityProviderStrategy: [{capacityProvider: 'FARGATE_SPOT'}],"
       \in LauncherLines(doc[1], StackValues(doc[1]))

(* ------------------------ claims: the cache keys ----------------------- *)

\* an entry of the cache written for an input is what a call with an equal
\* input gets: a call that missed found no live entry under its key
MissedOnlyWithoutEntry ==
  kcall # <<>> /\ kcall[1].pc = "call" =>
    cacheGet(cache, kcall[1].op, KeyedOn(kcall[1].op, kcall[1].input)) = <<>>

\* C34: what describeServices, describeStackEvents, describeStackResources
\* or describeStacks return without an error was fetched for the input of
\* the call, so calls that differ in a field of the input share no entry of
\* the cache, while a call finds the entry written for an equal input.
C34_ValueOfOwnInput ==
  /\ MissedOnlyWithoutEntry
  /\ klast # <<>> /\ klast[1].err = NoError =>
       klast[1].out[1].Of = klast[1].input

(* -------------------- claims: the release lookups ---------------------- *)

\* the call that returned last is taskDefinitionRelease
ReleaseLooked == elast # <<>> /\ elast[1].op = "taskDefinitionRelease"

\* C38: taskDefinitionRelease ends by returning, never by a runtime failure;
\* when it returns an error (no container definitions, no convox.release
\* label of the first container) the cache has no entry of it, and when it
\* returns a label the cache has that label under the task definition.
C38_ReleaseErrorsAreValues ==
  ReleaseLooked =>
    /\ elast[1].pc = "ret"
    /\ elast[1].err # NoError =>
         <<"taskDefinitionRelease", elast[1].key>> \notin DOMAIN cache
    /\ elast[1].err = NoError =>
         cacheGet(cache, "taskDefinitionRelease", elast[1].key) = elast[1].res

(* --------------------- claims: failures and the cache ------------------ *)

\* the step writes the entry k of the cache
Written(k) == k \notin DOMAIN cache \/ cache'[k] # cache[k]

\* the step that writes the entry k is the cache.Set of a wrapper whose
\* provider call succeeded: describeStacks after its pages, one of the other
\* stack descriptions, listStackResources after the page without NextToken,
\* or a task or container call, describeTasks only without failures
WrittenOnSuccess(k) ==
  \/ \E r \in Readers :
       /\ pc[r] = "ds_set"
       /\ pc'[r] = "ds_ret"
       /\ derr[r] = NoError
       /\ k[1] = "describeStacks"
       /\ cache'[k].item = dstacks[r]
  \/ \E r \in Readers :
       /\ pc[r] = "op_set"
       /\ pc'[r] = "op_ret"
       /\ k[1] = rcall[r].op
       /\ ritem[r] # <<>>
       /\ cache'[k].item = ritem[r]
       /\ rcall[r].op = "listStackResources" => rcall[r].token = Nil
  \/ /\ eframes # <<>>
     /\ Top.pc = "set"
     /\ Top.err = NoError
     /\ k[1] = Top.op
     /\ cache'[k].item = Top.res[1]
     /\ Top.op = "describeTasks" => Top.res[1].Failures = 0

\* the step is a provider call of a task or container wrapper that failed
ProviderCallFails ==
  /\ eframes # <<>>
  /\ Top.pc = "call"
  /\ Top.op \in EcsWrappers
  /\ Len(eframes') = Len(eframes)
  /\ eframes'[Len(eframes')].err # NoError

\* C35: a wrapper whose provider call fails returns the error and leaves
\* the cache as it is; the cache is written only by the cache.Set of a call
\* that succeeded, by listStackResources only after its last page and by
\* describeTasks only for an output without failures, so that no entry of
\* describeTasks ever reports a failure.
C35_FailuresNeverCached ==
  /\ [](\A k \in DOMAIN cache : k[1] = "describeTasks" => cache[k].item.Failures = 0)
  /\ [][/\ \A k \in DOMAIN cache' : Written(k) => WrittenOnSuccess(k)
        /\ ProviderCallFails =>
             cache' = cache /\ eframes'[Len(eframes')].pc = "ret"]_vars

\* describeTasks has returned an output that reports a failure, nothing was
\* cached for it, and a listing of two pages is in the cache
C35_Witness ==
  /\ ~skipCache
  /\ elast # <<>>
  /\ elast[1].op = "describeTasks"
  /\ elast[1].err = NoError
  /\ elast[1].res[1].Failures # 0
  /\ <<"describeTasks", elast[1].key>> \notin DOMAIN cache
  /\ <<"listStackResources", KeyOf(StackName)>> \in DOMAIN cache
  /\ Len(cache[<<"listStackResources", KeyOf(StackName)>>].item) = 2

(* ------------------------ claims: retry, again ------------------------- *)

\* C37: retry never fails at runtime while computing its jitter, whatever
\* the interval (0 and intervals below 20 nanoseconds included) and times:
\* every failed invocation of fn is followed by a sleep, and then by another
\* invocation or by the return of the error.
C37_JitterNeverPanics ==
  /\ rpc # "panic"
  /\ rpc \in {"call", "done"} /\ ferr # NoError => Len(sleeps) = invocations
  /\ rpc = "done" /\ ferr # NoError => rret = ferr

(* ------------------------- claims: putLogEvents ------------------------ *)

\* the PutLogEvents calls among the first n calls of the running putLogEvents
RECURSIVE PutsUpTo(_)
PutsUpTo(n) ==
  IF n = 0 THEN 0
  ELSE PutsUpTo(n - 1) + (IF lcalls[n].op = "PutLogEvents" THEN 1 ELSE 0)

\* call i was the last one and putLogEvents returned token, err after it
ReturnedAfter(i, token, err) ==
  /\ i = Len(lcalls)
  /\ lpc = "done"
  /\ lret = <<[token |-> token, err |-> err]>>

\* call i is followed by a call of op, made or about to be made, with the
\* sequence token given
FollowedBy(i, op, at, token) ==
  IF i = Len(lcalls)
    THEN lpc = at /\ lret = <<>> /\ lreq.SequenceToken = token
    ELSE lcalls[i + 1].op = op /\ lcalls[i + 1].token = token

\* what follows call i in every case but that of a DescribeLogStreams answer
\* without exactly one stream
StepFollows(i) ==
  LET c == lcalls[i] IN
    CASE c.op = "PutLogEvents" /\ c.err = NoError ->
           ReturnedAfter(i, c.next, NoError)
      [] c.op = "PutLogEvents" /\ c.err # NoError /\ PutsUpTo(i) >= 4 ->
           ReturnedAfter(i, "", c.err)
      [] c.op = "PutLogEvents" /\ c.err = ErrResourceNotFound /\ PutsUpTo(i) < 4 ->
           FollowedBy(i, "CreateLogStream", "create", c.token)
      [] c.op = "PutLogEvents" /\ c.err = ErrInvalidSequenceToken /\ PutsUpTo(i) < 4 ->
           FollowedBy(i, "DescribeLogStreams", "describe", c.token)
      [] c.op = "PutLogEvents"
           /\ c.err \notin {NoError, ErrResourceNotFound, ErrInvalidSequenceToken}
           /\ PutsUpTo(i) < 4 ->
           ReturnedAfter(i, "", c.err)
      [] c.op \in {"CreateLogStream", "DescribeLogStreams"} /\ c.err # NoError ->
           ReturnedAfter(i, "", c.err)
      [] c.op = "CreateLogStream" /\ c.err = NoError ->
           FollowedBy(i, "PutLogEvents", "put", c.token)
      [] c.op = "DescribeLogStreams" /\ c.err = NoError /\ Len(c.streams) = 1 ->
           FollowedBy(i, "PutLogEvents", "put", c.streams[1])
      [] OTHER -> TRUE

\* DescribeLogStreams answered call i without an error
Described(i) == lcalls[i].op = "DescribeLogStreams" /\ lcalls[i].err = NoError

\* putLogEvents is running
LogsRunning == lpc \in {"put", "create", "describe"}

\* putLogEvents makes at most 4 PutLogEvents calls, and each call is followed
\* as the kind of its answer asks
LogsBounded ==
  /\ PutsUpTo(Len(lcalls)) <= 4
  /\ \A i \in 1..Len(lcalls) : StepFollows(i)

\* C36 as stated: putLogEvents always terminates after at most 4
\* PutLogEvents calls; the first success returns the next sequence token, a
\* ResourceNotFoundException is followed by CreateLogStream and another try,
\* an InvalidSequenceTokenException whose DescribeLogStreams call succeeds is
\* always followed by another try with the sequence token of the stream, any
\* other error, an error of the recovery call and the fourth failure are
\* returned at once.
C36_PutLogEventsTerminates ==
  /\ []LogsBounded
  /\ [](\A i \in 1..Len(lcalls) :
          Described(i) => FollowedBy(i, "PutLogEvents", "put", lcalls[i].streams[1]))
  /\ (LogsRunning ~> lpc = "done")

\* C36, amended: as above, but a DescribeLogStreams answer without exactly
\* one stream ends putLogEvents with the error "could not describe log
\* stream" and the empty token.
C36_PutLogEventsTerminatesOrNoStream ==
  /\ []LogsBounded
  /\ [](\A i \in 1..Len(lcalls) :
          Described(i) =>
            IF Len(lcalls[i].streams) = 1
              THEN FollowedBy(i, "PutLogEvents", "put", lcalls[i].streams[1])
              ELSE ReturnedAfter(i, "", ErrCouldNotDescribe))
  /\ (LogsRunning ~> lpc = "done")

\* the fourth PutLogEvents call has failed with a ResourceNotFoundException
\* after a creation of the stream and a refresh of the token, and its error
\* is returned
C36_Witness ==
  /\ lpc = "done"
  /\ PutsUpTo(Len(lcalls)) = 4
  /\ lcalls[Len(lcalls)].err = ErrResourceNotFound
  /\ lret = <<[token |-> "", err |-> ErrResourceNotFound]>>
  /\ \E i \in 1..Len(lcalls) : lcalls[i].op = "CreateLogStream"
  /\ \E i \in 1..Len(lcalls) : Described(i) /\ lcalls[i].streams = <<"t2">>

(* ------------------------ claims: cron labels, again ------------------- *)

\* the cron job the statement gives the label key with the value
JobOfLabel(key, value) ==
  LET segments == Split(key, ".")
      fields == Fields(value)
  IN [Name |-> segments[Len(segments)],
      Schedule |-> "cron(" \o Join([n \in 1..5 |-> fields[n]], " ") \o " *)",
      Command |-> Join([n \in 1..(Len(fields) - 5) |-> fields[n + 5]], " ")]

\* the cron labels of the service web of the manifest loaded
WebCronLabels == LabelsByPrefix(manifest.Services["web"], "convox.cron")

\* C39: for every cron label value of a manifest Load has accepted, values
\* with fewer than five fields included, appCronJobs ends without a runtime
\* failure, and the job NewCronJobFromLabel makes of a label has the last
\* segment of the key for Name, 'cron(' + the first five fields + ' *)' for
\* Schedule and the remaining fields joined by single spaces for Command.
C39_CronJobOfEveryValue ==
  /\ vpc # "panic"
  /\ vpc = "jobs" =>
       \A k \in DOMAIN WebCronLabels :
         \E n \in 1..Len(ljobs[1]) :
           /\ ljobs[1][n].Name = JobOfLabel(k, WebCronLabels[k]).Name
           /\ ljobs[1][n].Schedule = JobOfLabel(k, WebCronLabels[k]).Schedule
           /\ ljobs[1][n].Command = JobOfLabel(k, WebCronLabels[k]).Command

====
